---------------------------- MODULE Spec2Model ----------------------------
(***************************************************************************)
(* Model of the multi-service resolution pipeline of src/index.js          *)
(* (class RealVideoDownloader, lines 1246-1694): the four service          *)
(* adapters, the coordinator getAllDirectUrls, removeDuplicates and        *)
(* sortByQuality.                                                          *)
(*                                                                         *)
(* JavaScript strings are modelled as sequences of one-character strings,  *)
(* so that concatenation, lower-casing and regular-expression matching are *)
(* computed character by character as the code computes them.              *)
(***************************************************************************)
EXTENDS Integers, Sequences, FiniteSets, TLC

(***************************************************************************)
(* Bounds of the model.                                                    *)
(***************************************************************************)
\* longest candidate menu an analyze response carries
MaxCandidates == 4
\* longest list handed to removeDuplicates / sortByQuality in PureSpec
MaxLen == 4

(***************************************************************************)
(* Program constants.                                                      *)
(***************************************************************************)
\* Math.min(3, downloads.length) in parseY2Mate
Y2MateCap == 3
\* Math.min(2, downloads.length) in parse9Convert
NineConvertCap == 2
\* const REQUEST_DELAY = 1000
REQUEST_DELAY == 1000

(***************************************************************************)
(* Characters and strings.                                                 *)
(***************************************************************************)
UpperCase == <<"A","B","C","D","E","F","G","H","I","J","K","L","M",
               "N","O","P","Q","R","S","T","U","V","W","X","Y","Z">>
LowerCase == <<"a","b","c","d","e","f","g","h","i","j","k","l","m",
               "n","o","p","q","r","s","t","u","v","w","x","y","z">>

\* String.prototype.toLowerCase on one character
LowerChar(c) ==
    IF \E i \in 1..26 : UpperCase[i] = c
    THEN LowerCase[CHOOSE i \in 1..26 : UpperCase[i] = c]
    ELSE c

\* String.prototype.toLowerCase
toLowerCase(s) == [i \in 1..Len(s) |-> LowerChar(s[i])]

\* the characters the regular-expression class \s matches
WhiteSpace == {" ", "\t", "\n", "\r", "\f"}
\* the characters the regular-expression atom . does not match
LineTerminators == {"\n", "\r"}

\* s has the literal lit at position i (1-based)
HasAt(s, i, lit) ==
    /\ i >= 1
    /\ i + Len(lit) - 1 <= Len(s)
    /\ \A j \in 1..Len(lit) : s[i + j - 1] = lit[j]

\* String.prototype.includes
Includes(s, lit) == \E i \in 1..(Len(s) + 1) : HasAt(s, i, lit)

(***************************************************************************)
(* isValidUrl: url && url.match(/^https?:\/\/[^\s/$.?#].[^\s]*$/i)          *)
(***************************************************************************)
\* length of the scheme prefix matched by ^https?:\/\/ under the i flag, 0 if none
SchemeLen(url) ==
    LET s == toLowerCase(url) IN
    IF HasAt(s, 1, <<"h","t","t","p","s",":","/","/">>) THEN 8
    ELSE IF HasAt(s, 1, <<"h","t","t","p",":","/","/">>) THEN 7
    ELSE 0

isValidUrlAcceptsAll(url) == TRUE
isValidUrl(url) ==
    LET p == SchemeLen(url) IN
    /\ Len(url) > 0
    /\ p > 0
    /\ Len(url) >= p + 2
    /\ url[p + 1] \notin (WhiteSpace \cup {"/", "$", ".", "?", "#"})
    /\ url[p + 2] \notin LineTerminators
    /\ \A i \in (p + 3)..Len(url) : url[i] \notin WhiteSpace

(***************************************************************************)
(* removeDuplicates (lines 1671-1679).  A link is a record                 *)
(* [directUrl, quality, format, type, service]; directUrl, quality and     *)
(* format are strings.                                                     *)
(***************************************************************************)
\* `${download.directUrl}-${download.quality}-${download.format}`
DuplicateKey(download) ==
    download.directUrl \o <<"-">> \o download.quality \o <<"-">> \o download.format

\* downloads.filter(...) with the Set `seen` threaded through the iteration
RECURSIVE FilterUnseen(_, _)
FilterUnseen(downloads, seen) ==
    IF downloads = <<>> THEN <<>>
    ELSE LET key == DuplicateKey(Head(downloads)) IN
         IF key \in seen
         THEN FilterUnseen(Tail(downloads), seen)
         ELSE <<Head(downloads)>> \o FilterUnseen(Tail(downloads), seen \cup {key})

removeDuplicates(downloads) == FilterUnseen(downloads, {})

(***************************************************************************)
(* sortByQuality (lines 1681-1693).                                        *)
(***************************************************************************)
\* the object literal qualityOrder: its own properties
qualityOrder ==
    { <<<<"4","k">>, 7>>,
      <<<<"2","1","6","0","p">>, 7>>,
      <<<<"1","4","4","0","p">>, 6>>,
      <<<<"1","0","8","0","p">>, 5>>,
      <<<<"7","2","0","p">>, 4>>,
      <<<<"4","8","0","p">>, 3>>,
      <<<<"3","6","0","p">>, 2>>,
      <<<<"2","4","0","p">>, 1>>,
      <<<<"a","u","t","o">>, 0>>,
      <<<<"u","n","k","n","o","w","n">>, 0>>,
      <<<<"h","d">>, 5>>,
      <<<<"s","d">>, 3>>,
      <<<<"h","i","g","h">>, 5>>,
      <<<<"l","o","w">>, 1>> }

\* properties every object literal inherits from Object.prototype; a lookup
\* qualityOrder[name] of one of these yields a function or an object
ObjectPrototypeKeys ==
    { <<"c","o","n","s","t","r","u","c","t","o","r">>,
      <<"_","_","p","r","o","t","o","_","_">>,
      <<"t","o","S","t","r","i","n","g">>,
      <<"v","a","l","u","e","O","f">> }

\* JavaScript values a lookup can yield: a number, an object (function), undefined
JsNumber(n) == [kind |-> "number", num |-> n]
JsObject == [kind |-> "object", num |-> 0]
JsUndefined == [kind |-> "undefined", num |-> 0]

\* qualityOrder[key]
PropertyLookup(key) ==
    IF \E e \in qualityOrder : e[1] = key
    THEN JsNumber((CHOOSE e \in qualityOrder : e[1] = key)[2])
    ELSE IF key \in ObjectPrototypeKeys THEN JsObject
    ELSE JsUndefined

\* v || 0
OrZero(v) ==
    IF v.kind = "object" \/ (v.kind = "number" /\ v.num # 0) THEN v ELSE JsNumber(0)

\* qualityOrder[x.quality.toLowerCase()] || 0
Score(quality) == OrZero(PropertyLookup(toLowerCase(quality)))

\* the comparator (a, b) => bScore - aScore; the difference is NaN unless both
\* operands are numbers
Comparator(a, b) ==
    LET aScore == Score(a.quality)
        bScore == Score(b.quality)
    IN IF aScore.kind = "number" /\ bScore.kind = "number"
       THEN [nan |-> FALSE, num |-> bScore.num - aScore.num]
       ELSE [nan |-> TRUE, num |-> 0]

\* Array.prototype.sort reads a NaN comparator result as +0
SortCompare(a, b) == IF Comparator(a, b).nan THEN 0 ELSE Comparator(a, b).num

\* the comparator is a consistent comparison function on the elements of the
\* list: no call of it on two of them yields NaN
ConsistentOn(downloads) ==
    \A i, j \in 1..Len(downloads) : ~Comparator(downloads[i], downloads[j]).nan

\* insert x into the sorted sequence s behind every element it does not precede
RECURSIVE InsertFromRight(_, _, _)
InsertFromRight(s, x, j) ==
    IF j = 0 \/ SortCompare(s[j], x) <= 0
    THEN SubSeq(s, 1, j) \o <<x>> \o SubSeq(s, j + 1, Len(s))
    ELSE InsertFromRight(s, x, j - 1)

\* the stable sort Array.prototype.sort performs with a consistent comparator
RECURSIVE StableSort(_)
StableSort(downloads) ==
    IF Len(downloads) <= 1 THEN downloads
    ELSE LET front == StableSort(SubSeq(downloads, 1, Len(downloads) - 1))
         IN InsertFromRight(front, downloads[Len(downloads)], Len(front))

\* x put at each position of s
InsertAnywhere(s, x) ==
    {SubSeq(s, 1, j) \o <<x>> \o SubSeq(s, j + 1, Len(s)) : j \in 0..Len(s)}

\* every reordering of the list
RECURSIVE Reorderings(_)
Reorderings(downloads) ==
    IF downloads = <<>> THEN {<<>>}
    ELSE UNION {InsertAnywhere(r, Head(downloads)) : r \in Reorderings(Tail(downloads))}

\* values of a quality field that are not strings (a JSON number, null); the
\* adapters of RealVideoDownloader build every quality from element text, a
\* regular-expression match or the literal 'auto', so they produce none
NonStrings == {<<"#number">>, <<"#null">>}

\* a.quality.toLowerCase() throws a TypeError unless quality is a string; the
\* comparator is called only when the list has two or more elements
ComparatorThrows(downloads) ==
    /\ Len(downloads) >= 2
    /\ \E n \in 1..Len(downloads) : downloads[n].quality \in NonStrings

\* downloads.sort(comparator): the set of results the call can leave.  With a
\* consistent comparator the result is the stable sort; otherwise ECMAScript
\* leaves the order implementation-defined and every reordering is an outcome.
sortByQuality(downloads) ==
    IF Len(downloads) < 2 THEN {downloads}
    ELSE IF ConsistentOn(downloads) THEN {StableSort(downloads)}
    ELSE Reorderings(downloads)

(***************************************************************************)
(* getVideoId (lines 1271-1285).  A pattern is an ordered list of          *)
(* alternatives followed by one capturing group [^stop]+; an alternative   *)
(* is a literal, or (for tiktok.com/@user/video/) a literal, a run of one  *)
(* or more characters other than "/", and a second literal.                *)
(***************************************************************************)
patterns ==
    << [alts |-> << [pre |-> <<"y","o","u","t","u","b","e",".","c","o","m","/","w","a","t","c","h","?","v","=">>, seg |-> FALSE, post |-> <<>>],
                   [pre |-> <<"y","o","u","t","u","b","e",".","c","o","m","/","e","m","b","e","d","/">>, seg |-> FALSE, post |-> <<>>],
                   [pre |-> <<"y","o","u","t","u","b","e",".","c","o","m","/","s","h","o","r","t","s","/">>, seg |-> FALSE, post |-> <<>>],
                   [pre |-> <<"y","o","u","t","u",".","b","e","/">>, seg |-> FALSE, post |-> <<>>] >>,
        stop |-> {"&", "\n", "?", "#"}],
       [alts |-> << [pre |-> <<"y","o","u","t","u","b","e",".","c","o","m","/","v","/">>, seg |-> FALSE, post |-> <<>>] >>,
        stop |-> {"&", "\n", "?", "#"}],
       [alts |-> << [pre |-> <<"i","n","s","t","a","g","r","a","m",".","c","o","m","/","p","/">>, seg |-> FALSE, post |-> <<>>],
                   [pre |-> <<"i","n","s","t","a","g","r","a","m",".","c","o","m","/","r","e","e","l","/">>, seg |-> FALSE, post |-> <<>>],
                   [pre |-> <<"i","n","s","t","a","g","r","a","m",".","c","o","m","/","t","v","/">>, seg |-> FALSE, post |-> <<>>],
                   [pre |-> <<"i","n","s","t","a","g","r",".","a","m","/","p","/">>, seg |-> FALSE, post |-> <<>>] >>,
        stop |-> {"/", "?"}],
       [alts |-> << [pre |-> <<"t","i","k","t","o","k",".","c","o","m","/","@">>, seg |-> TRUE, post |-> <<"/","v","i","d","e","o","/">>],
                   [pre |-> <<"v","m",".","t","i","k","t","o","k",".","c","o","m","/">>, seg |-> FALSE, post |-> <<>>],
                   [pre |-> <<"t","i","k","t","o","k",".","c","o","m","/","t","/">>, seg |-> FALSE, post |-> <<>>] >>,
        stop |-> {"/", "?"}],
       [alts |-> << [pre |-> <<"f","a","c","e","b","o","o","k",".","c","o","m","/","w","a","t","c","h","?","v","=">>, seg |-> FALSE, post |-> <<>>],
                   [pre |-> <<"f","b",".","w","a","t","c","h","/">>, seg |-> FALSE, post |-> <<>>] >>,
        stop |-> {"&", "\n", "?", "#"}] >>

\* the first index k >= j with s[k] = c, or 0
FirstIndexFrom(s, j, c) ==
    IF \E k \in j..Len(s) : s[k] = c
    THEN CHOOSE k \in j..Len(s) : s[k] = c /\ \A m \in j..(k - 1) : s[m] # c
    ELSE 0

\* where the capturing group starts when alternative alt matches at i, or 0
AltEnd(s, i, alt) ==
    IF ~HasAt(s, i, alt.pre) THEN 0
    ELSE LET j == i + Len(alt.pre) IN
         IF ~alt.seg THEN j
         ELSE LET k == FirstIndexFrom(s, j, "/") IN
              IF k > j /\ HasAt(s, k, alt.post) THEN k + Len(alt.post) ELSE 0

\* the longest run of characters outside stop starting at j
CaptureFrom(s, j, stop) ==
    IF j = 0 \/ j > Len(s) THEN <<>>
    ELSE LET ends == {k \in j..Len(s) : \A m \in j..k : s[m] \notin stop}
         IN IF ends = {} THEN <<>>
            ELSE SubSeq(s, j, CHOOSE k \in ends : \A m \in ends : m <= k)

\* the group captured by the first alternative of pat that matches at i, or <<>>
RECURSIVE CaptureAt(_, _, _, _)
CaptureAt(s, i, pat, n) ==
    IF n > Len(pat.alts) THEN <<>>
    ELSE LET c == CaptureFrom(s, AltEnd(s, i, pat.alts[n]), pat.stop) IN
         IF c # <<>> THEN c ELSE CaptureAt(s, i, pat, n + 1)

\* url.match(pattern): the group of the leftmost match, or <<>> (no match)
MatchPattern(s, pat) ==
    LET hits == {i \in 1..Len(s) : CaptureAt(s, i, pat, 1) # <<>>} IN
    IF hits = {} THEN <<>>
    ELSE CaptureAt(s, CHOOSE i \in hits : \A m \in hits : i <= m, pat, 1)

\* the group of the last pattern that matches
LastPatternMatch(url, n) ==
    LET hits == {m \in n..Len(patterns) : MatchPattern(url, patterns[m]) # <<>>} IN
    IF hits = {} THEN <<>>
    ELSE MatchPattern(url, patterns[CHOOSE m \in hits : \A k \in hits : k <= m])

\* for (const pattern of patterns) ...; <<>> stands for null
RECURSIVE FirstPatternMatch(_, _)
FirstPatternMatch(url, n) ==
    IF n > Len(patterns) THEN <<>>
    ELSE LET m == MatchPattern(url, patterns[n]) IN
         IF m # <<>> THEN m ELSE FirstPatternMatch(url, n + 1)

getVideoId(url) == FirstPatternMatch(url, 1)

(***************************************************************************)
(* Strings the code and the modelled inputs use.                           *)
(***************************************************************************)
StrAuto == <<"a","u","t","o">>
StrMp4 == <<"m","p","4">>
StrMp3 == <<"m","p","3">>
StrM4a == <<"m","4","a">>
StrUnknown == <<"u","n","k","n","o","w","n">>
StrHttps == <<"h","t","t","p","s",":","/","/">>

\* source URLs handed to getAllDirectUrls
UrlYoutuBe == <<"h","t","t","p","s",":","/","/","y","o","u","t","u",".","b","e","/","a","b","c">>
UrlNoId == <<"h","t","t","p","s",":","/","/","x",".","c","o","/","v">>
UrlFtp == <<"f","t","p",":","/","/","y","o","u","t","u",".","b","e","/","a","b","c">>
UrlBare == <<"y","o","u","t","u",".","b","e","/","a","b","c">>
UrlShort == <<"h","t","t","p",":","/","/","a">>
SourceUrls == {UrlYoutuBe, UrlNoId, UrlFtp, UrlBare, UrlShort, <<>>}

\* hrefs upstream responses carry
HrefA == <<"h","t","t","p","s",":","/","/","d","o","w","n","l","o","a","d",".","i","o","/","a">>
HrefAhd == <<"h","t","t","p","s",":","/","/","d","o","w","n","l","o","a","d",".","i","o","/","a","-","h","d">>
HrefSpace == <<"h","t","t","p","s",":","/","/","d","o","w","n","l","o","a","d",".","i","o","/","a"," ","b">>
HrefAds == <<"h","t","t","p","s",":","/","/","a","d","s",".","i","o","/","x">>
HrefRel == <<"/","d","o","w","n","l","o","a","d","/","a">>
HrefGv == <<"h","t","t","p","s",":","/","/","g","o","o","g","l","e","v","i","d","e","o",".","c","o","m","/","v">>
HrefGv2 == <<"h","t","t","p","s",":","/","/","g","o","o","g","l","e","v","i","d","e","o",".","c","o","m","/","w">>

\* quality labels upstream responses carry
Q360p == <<"3","6","0","p">>
Q720p == <<"7","2","0","p">>
Q1080p == <<"1","0","8","0","p">>
QHD == <<"H","D">>
Qhd == <<"h","d">>
Qsd == <<"s","d">>
QhdSd == <<"h","d","-","s","d">>
QConstructor == <<"c","o","n","s","t","r","u","c","t","o","r">>
Q4K == <<"4","K">>
QWeird == <<"8","k","6","0">>

(***************************************************************************)
(* The adapters, in the order getAllDirectUrls invokes them (line 1650).   *)
(***************************************************************************)
serviceNames == <<"y2mate", "9convert", "ssyoutube", "loader.to">>
Adapters == {serviceNames[i] : i \in 1..Len(serviceNames)}
TwoPhase == {"y2mate", "9convert"}
SinglePhase == {"ssyoutube", "loader.to"}
\* the adapters that throw 'Could not extract video ID' (lines 1328, 1582)
RequiresVideoId == {"y2mate", "loader.to"}

Min(a, b) == IF a < b THEN a ELSE b

maxConversionsUncapped(a, downloads) == Len(downloads)

\* Math.min(3, downloads.length) / Math.min(2, downloads.length)
maxConversions(a, downloads) ==
    Min(IF a = "y2mate" THEN Y2MateCap ELSE NineConvertCap, Len(downloads))

(***************************************************************************)
(* extractDownloadItems (lines 1293-1321).  A row is what the selectors    *)
(* read off one matched element: whether it holds a download button, the   *)
(* text of its first cell, the text of its second cell, and the button's   *)
(* format and key attributes (<<>> when absent or empty).                  *)
(***************************************************************************)
Row(btn, quality, size, ftype, k) ==
    [btn |-> btn, quality |-> quality, size |-> size, ftype |-> ftype, k |-> k]

\* format === 'mp3' || format === 'm4a' ? 'audio' : type
MediaType(format, type) == IF format \in {StrMp3, StrM4a} THEN "audio" ELSE type

DownloadItem(row, service, videoId, type) ==
    LET format == IF row.ftype = <<>> THEN StrMp4 ELSE row.ftype IN
    [service |-> service,
     quality |-> IF row.quality = <<>> THEN StrAuto ELSE row.quality,
     format |-> format,
     size |-> IF row.size = <<>> THEN StrUnknown ELSE row.size,
     type |-> MediaType(format, type),
     k |-> row.k,
     vid |-> videoId]

RECURSIVE extractDownloadItems(_, _, _, _)
extractDownloadItems(rows, service, videoId, type) ==
    IF rows = <<>> THEN <<>>
    ELSE LET row == Head(rows)
             rest == extractDownloadItems(Tail(rows), service, videoId, type)
         IN IF row.btn /\ row.k # <<>>
            THEN <<DownloadItem(row, service, videoId, type)>> \o rest
            ELSE rest

(***************************************************************************)
(* Upstream responses.                                                     *)
(***************************************************************************)
\* rows of the analyze fragment of each two-phase service, by position
Y2MateRows ==
    << Row(TRUE, Q360p, <<"1","2"," ","M","B">>, StrMp4, <<"k","1">>),
       Row(TRUE, Q720p, <<>>, StrMp4, <<"k","2">>),
       Row(TRUE, Q1080p, <<>>, <<>>, <<"k","3">>),
       Row(TRUE, QHD, <<>>, StrMp4, <<"k","4">>) >>
Y2MateAudioRows == << Row(TRUE, QConstructor, <<>>, StrMp3, <<"k","9">>) >>
\* an audio-tab row whose button carries no data-ftype / data-format
Y2MateAudioRowsNoFormat == << Row(TRUE, <<"1","2","8","k","b","p","s">>, <<>>, <<>>, <<"k","8">>) >>
NineConvertRows ==
    << Row(TRUE, Qsd, <<>>, StrMp4, <<"n","1">>),
       Row(TRUE, <<>>, <<>>, <<>>, <<>>),
       Row(TRUE, QhdSd, <<>>, StrMp4, <<"n","2">>),
       Row(TRUE, Q360p, <<>>, StrMp4, <<"n","3">>),
       Row(FALSE, Q720p, <<>>, StrMp4, <<"n","4">>) >>

\* the first n rows of a fragment that repeats the rows above
RowPrefix(rows, n) == [i \in 1..n |-> rows[((i - 1) % Len(rows)) + 1]]

\* the numbers of rows the modelled fragments have
RowCounts(a) ==
    IF a = "y2mate" THEN {0, 1, MaxCandidates} ELSE {0, MaxCandidates - 1, MaxCandidates}

\* what an analyze request can come back with: a network error or timeout,
\* a body without the expected fields, a status other than 'ok', or 'ok'
\* with a fragment
AnalyzeResponse(kind, rows, audioRows) ==
    [kind |-> kind, rows |-> rows, audioRows |-> audioRows]

AnalyzeResponses(a) ==
    {AnalyzeResponse(k, <<>>, <<>>) : k \in {"error", "malformed", "notok"}}
    \cup {AnalyzeResponse("ok",
                          RowPrefix(IF a = "y2mate" THEN Y2MateRows ELSE NineConvertRows, n),
                          <<>>) : n \in RowCounts(a)}
    \cup (IF a = "y2mate"
          THEN {AnalyzeResponse("ok", <<>>, Y2MateAudioRows),
                AnalyzeResponse("ok", <<>>, Y2MateAudioRowsNoFormat)}
          ELSE {})

\* what a convert request can come back with; anchors are the hrefs of the
\* a[href] elements of the result fragment, in document order
ConvertResponse(kind, anchors) == [kind |-> kind, anchors |-> anchors]

ConvertResponses(a) ==
    {ConvertResponse(k, <<>>) : k \in {"error", "malformed", "notok"}}
    \cup {ConvertResponse("ok", anchors) :
            anchors \in (IF a = "y2mate"
                         THEN {<<>>, <<HrefSpace>>, <<HrefAds, HrefA>>}
                         ELSE {<<HrefRel>>, <<HrefA>>, <<HrefAhd>>})}

\* an element the single-phase selectors match: its href (<<>> when absent)
\* and the quality and format labels the regular expressions find in its
\* text (<<>> when they find none)
Anchor(href, quality, format) == [href |-> href, quality |-> quality, format |-> format]

\* what the single fetch can come back with: anchors, and the googlevideo
\* URLs the fallback regular expression finds in the inline scripts
FetchResponse(kind, anchors, scriptUrls) ==
    [kind |-> kind, anchors |-> anchors, scriptUrls |-> scriptUrls]

FetchResponses(a) ==
    {FetchResponse("error", <<>>, <<>>)}
    \cup (IF a = "ssyoutube"
          THEN {FetchResponse("ok", <<>>, <<>>),
                FetchResponse("ok", <<Anchor(HrefA, Q360p, StrMp4)>>, <<>>),
                FetchResponse("ok", <<Anchor(HrefAds, Qhd, <<>>), Anchor(<<>>, Qhd, StrMp4),
                                      Anchor(HrefGv, <<>>, StrM4a)>>, <<HrefGv, HrefGv2>>)}
          ELSE {FetchResponse("ok", <<Anchor(HrefRel, Q720p, StrMp4)>>, <<>>),
                FetchResponse("ok", <<Anchor(HrefA, QHD, <<"M","P","3">>)>>, <<>>)})

(***************************************************************************)
(* Parsing of the responses.                                               *)
(***************************************************************************)
\* the substrings the convert filter looks for (lines 1394, 1484)
HrefMarkers(a) ==
    IF a = "y2mate"
    THEN {<<"g","o","o","g","l","e","v","i","d","e","o",".","c","o","m">>, <<"y","2","m","a","t","e",".","c","o","m">>, <<"d","o","w","n","l","o","a","d">>}
    ELSE {<<"9","c","o","n","v","e","r","t",".","c","o","m">>, <<"d","o","w","n","l","o","a","d">>}

\* $result('a[href^="https://"]').filter(...).first().attr('href'); <<>> is undefined
RECURSIVE FirstDownloadHref(_, _)
FirstDownloadHref(a, anchors) ==
    IF anchors = <<>> THEN <<>>
    ELSE LET href == Head(anchors) IN
         IF /\ HasAt(href, 1, StrHttps)
            /\ \E m \in HrefMarkers(a) : Includes(href, m)
         THEN href
         ELSE FirstDownloadHref(a, Tail(anchors))

\* the record pushed to directUrls (lines 1398-1405, 1488-1494)
ConvertedLinkWithDefaults(a, item, downloadUrl) ==
    [directUrl |-> downloadUrl, quality |-> StrAuto, format |-> StrMp4, type |-> "video",
     service |-> a]
ConvertedLink(a, item, downloadUrl) ==
    IF a = "y2mate"
    THEN [directUrl |-> downloadUrl, quality |-> item.quality, format |-> item.format,
          size |-> item.size, type |-> item.type, service |-> "y2mate"]
    ELSE [directUrl |-> downloadUrl, quality |-> item.quality, format |-> item.format,
          type |-> item.type, service |-> "9convert"]

\* the body of one loop iteration after the convert response arrived: the
\* links to append to directUrls.  A thrown error (request failure, missing
\* fields) is caught by the inner catch and appends nothing.
ConvertOutcome(a, item, resp) ==
    IF resp.kind # "ok" THEN <<>>
    ELSE LET downloadUrl == FirstDownloadHref(a, resp.anchors) IN
         IF downloadUrl # <<>> /\ isValidUrl(downloadUrl)
         THEN <<ConvertedLink(a, item, downloadUrl)>>
         ELSE <<>>

\* label || 'auto', label || 'mp4'
OrDefault(label, default) == IF label = <<>> THEN default ELSE label

\* parseSSYouTube, the .each over the matched elements (lines 1535-1551)
RECURSIVE SSYouTubeAnchors(_)
SSYouTubeAnchors(anchors) ==
    IF anchors = <<>> THEN <<>>
    ELSE LET el == Head(anchors)
             format == OrDefault(toLowerCase(el.format), StrMp4)
         IN IF /\ el.href # <<>>
               /\ isValidUrl(el.href)
               /\ (Includes(el.href, <<"g","o","o","g","l","e","v","i","d","e","o",".","c","o","m">>) \/ Includes(el.href, <<"d","o","w","n","l","o","a","d">>))
            THEN <<[directUrl |-> el.href,
                    quality |-> OrDefault(toLowerCase(el.quality), StrAuto),
                    format |-> format,
                    type |-> MediaType(format, "video"),
                    service |-> "ssyoutube"]>> \o SSYouTubeAnchors(Tail(anchors))
            ELSE SSYouTubeAnchors(Tail(anchors))

\* parseSSYouTube, the fallback over the URLs found in scripts (lines 1554-1566)
RECURSIVE SSYouTubeScripts(_, _)
SSYouTubeScripts(downloads, urlMatches) ==
    IF urlMatches = <<>> THEN downloads
    ELSE LET url == Head(urlMatches) IN
         IF isValidUrl(url) /\ ~\E n \in 1..Len(downloads) : downloads[n].directUrl = url
         THEN SSYouTubeScripts(Append(downloads,
                                      [directUrl |-> url, quality |-> StrAuto,
                                       format |-> StrMp4, type |-> "video",
                                       service |-> "ssyoutube"]),
                               Tail(urlMatches))
         ELSE SSYouTubeScripts(downloads, Tail(urlMatches))

\* parseLoaderTo, the .each over the matched elements (lines 1598-1615)
RECURSIVE LoaderToAnchors(_)
LoaderToAnchors(anchors) ==
    IF anchors = <<>> THEN <<>>
    ELSE LET el == Head(anchors)
             format == OrDefault(toLowerCase(el.format), StrMp4)
         IN IF el.href # <<>> /\ isValidUrl(el.href)
            THEN <<[directUrl |-> el.href,
                    quality |-> OrDefault(toLowerCase(el.quality), StrAuto),
                    format |-> format,
                    type |-> IF format = StrMp3 THEN "audio" ELSE "video",
                    service |-> "loader.to"]>> \o LoaderToAnchors(Tail(anchors))
            ELSE LoaderToAnchors(Tail(anchors))

\* the links a single-phase adapter builds from an 'ok' response
ParsePage(a, resp) ==
    IF a = "ssyoutube"
    THEN SSYouTubeScripts(SSYouTubeAnchors(resp.anchors), resp.scriptUrls)
    ELSE LoaderToAnchors(resp.anchors)

\* parseY2Mate step 2 / parse9Convert step 2: the candidate list `downloads`
ParseFormats(a, videoId, resp) ==
    IF a = "y2mate"
    THEN extractDownloadItems(resp.rows, "y2mate", videoId, "video")
         \o extractDownloadItems(resp.audioRows, "y2mate", videoId, "audio")
    ELSE extractDownloadItems(resp.rows, "9convert", <<>>, "video")

(***************************************************************************)
(* State.                                                                  *)
(***************************************************************************)
VARIABLES
    sourceUrl,        \* the argument videoUrl of getAllDirectUrls
    videoId,          \* what getVideoId(videoUrl) returned (<<>> is null)
    callPc,           \* where the call stands: "start", "waiting", "done", "rejected"
    invoked,          \* per adapter: how many times it was called
    pc,               \* per adapter: "idle", "delay", "analyzing", "fetching",
                      \* "convertDelay", "converting", "done", "failed"
    items,            \* per two-phase adapter: the candidate list `downloads`
    convIndex,        \* per two-phase adapter: the loop variable i
    directUrls,       \* per adapter: the links collected so far
    settled,          \* per adapter: the state of the promise it returned
    failure,          \* per adapter: the error its outer catch logged
    requests,         \* per adapter: the network requests issued so far
    inFlight,         \* per adapter: the requests issued and not yet settled
    convertLog,       \* per two-phase adapter: for each convert request issued, in
                      \* order, the key k it carried and what came of it:
                      \* "inflight", "link" or "none"
    allDownloads,     \* the local allDownloads of getAllDirectUrls
    uniqueDownloads,  \* the local uniqueDownloads
    sortedDownloads,  \* the local sortedDownloads
    result,           \* the object the call returned
    delays,           \* per adapter: the waits delay(ms) completed so far, in ms
    invocations,      \* per adapter: the argument it was called with and the
                      \* adapters whose promise had already settled at that moment
    ssUrl,            \* the URL parseSSYouTube requested (<<>> before the request)
    calls             \* two calls on one instance: per call its locals

vars == <<sourceUrl, videoId, callPc, invoked, pc, items, convIndex, directUrls, settled,
          failure, requests, inFlight, convertLog, allDownloads, uniqueDownloads,
          sortedDownloads, result, delays, invocations, ssUrl, calls>>

adapterVars == <<invoked, pc, items, convIndex, directUrls, settled, failure, requests,
                 inFlight, convertLog, delays, invocations, ssUrl>>
joinVars == <<allDownloads, uniqueDownloads, sortedDownloads, result>>

Pending == [status |-> "pending", value |-> <<>>]
Fulfilled(value) == [status |-> "fulfilled", value |-> value]
Rejected == [status |-> "rejected", value |-> <<>>]
NoResult == [none |-> TRUE]

\* the outer catch of an adapter: console.error(...); return []
CatchOuterRethrows(a) == Rejected
CatchOuter(a) == Fulfilled(<<>>)

\* return directUrls / return downloads at the end of the try block
ReturnLinks(a, links) == Fulfilled(links)

Init ==
    /\ sourceUrl \in SourceUrls
    /\ videoId = <<>>
    /\ callPc = "start"
    /\ invoked = [a \in Adapters |-> 0]
    /\ pc = [a \in Adapters |-> "idle"]
    /\ items = [a \in Adapters |-> <<>>]
    /\ convIndex = [a \in Adapters |-> 0]
    /\ directUrls = [a \in Adapters |-> <<>>]
    /\ settled = [a \in Adapters |-> Pending]
    /\ failure = [a \in Adapters |-> "none"]
    /\ requests = [a \in Adapters |-> 0]
    /\ inFlight = [a \in Adapters |-> 0]
    /\ convertLog = [a \in Adapters |-> <<>>]
    /\ delays = [a \in Adapters |-> <<>>]
    /\ invocations = [a \in Adapters |-> <<>>]
    /\ ssUrl = <<>>
    /\ calls = <<>>
    /\ allDownloads = <<>>
    /\ uniqueDownloads = <<>>
    /\ sortedDownloads = <<>>
    /\ result = NoResult

(***************************************************************************)
(* getAllDirectUrls, up to the await (lines 1627-1644).                    *)
(***************************************************************************)
\* the object returned for an invalid URL (lines 1631-1636)
InvalidUrlResult ==
    [success |-> FALSE, error |-> "Invalid URL format", downloads |-> <<>>, services |-> <<>>]

RejectInvalidUrl ==
    /\ callPc = "start"
    /\ ~isValidUrl(sourceUrl)
    /\ result' = InvalidUrlResult
    /\ callPc' = "done"
    /\ UNCHANGED <<sourceUrl, calls, videoId, adapterVars, allDownloads, uniqueDownloads, sortedDownloads>>

\* the adapter throws before its first await: no video id (lines 1327-1328, 1581-1582)
MissingVideoId(a) == a \in RequiresVideoId /\ getVideoId(sourceUrl) = <<>>

\* the adapters called before the n-th whose promise has settled by the time
\* the n-th is called: those that threw before their first await
SettledBefore(n) ==
    {serviceNames[m] : m \in {k \in 1..(n - 1) : MissingVideoId(serviceNames[k])}}

\* the array literal of line 1639-1644: the n-th adapter is called with videoUrl
InvocationWithoutUrl(n) == [videoUrl |-> <<>>, settledBefore |-> SettledBefore(n)]
Invocation(n) == [videoUrl |-> sourceUrl, settledBefore |-> SettledBefore(n)]

\* The four adapters are called in turn; each runs synchronously up to its
\* first await (the initial delay) or, without a video id, to its outer catch.
Dispatch ==
    /\ callPc = "start"
    /\ isValidUrl(sourceUrl)
    /\ callPc' = "waiting"
    /\ videoId' = getVideoId(sourceUrl)
    /\ invoked' = [a \in Adapters |-> invoked[a] + 1]
    /\ pc' = [a \in Adapters |-> IF MissingVideoId(a) THEN "failed" ELSE "delay"]
    /\ failure' = [a \in Adapters |-> IF MissingVideoId(a) THEN "noVideoId" ELSE "none"]
    /\ settled' = [a \in Adapters |-> IF MissingVideoId(a) THEN CatchOuter(a) ELSE Pending]
    /\ invocations' = [a \in Adapters |->
                         LET n == CHOOSE k \in 1..Len(serviceNames) : serviceNames[k] = a
                         IN  Append(invocations[a], Invocation(n))]
    /\ UNCHANGED <<sourceUrl, calls, items, convIndex, directUrls, requests, inFlight, convertLog,
                   delays, ssUrl, joinVars>>

(***************************************************************************)
(* The adapters (lines 1324-1624).                                         *)
(***************************************************************************)
\* delay(ms) (lines 1266-1268): the promise resolves once a timer of ms has
\* fired; what is recorded is the wait that completed
delaySkipped(ms) == <<>>
delay(ms) == <<ms>>

\* the position of the first occurrence of lit in s, 0 if there is none
IndexOf(s, lit) ==
    IF Includes(s, lit)
    THEN CHOOSE i \in 1..(Len(s) + 1) :
            HasAt(s, i, lit) /\ \A j \in 1..(i - 1) : ~HasAt(s, j, lit)
    ELSE 0

\* String.prototype.replace with a string pattern: the first occurrence only
Replace(s, lit, by) ==
    LET i == IndexOf(s, lit) IN
    IF i = 0 THEN s ELSE SubSeq(s, 1, i - 1) \o by \o SubSeq(s, i + Len(lit), Len(s))

HostWwwYoutube == <<"w","w","w",".","y","o","u","t","u","b","e",".","c","o","m">>
HostYoutube == <<"y","o","u","t","u","b","e",".","c","o","m">>
HostSSYoutube == <<"s","s","y","o","u","t","u","b","e",".","c","o","m">>
PrefixYoutuBe == <<"y","o","u","t","u",".","b","e","/">>
PrefixSSWatch == <<"s","s","y","o","u","t","u","b","e",".","c","o","m","/","w","a","t","c","h","?","v","=">>

\* const ssUrl = videoUrl.replace(...).replace(...).replace(...) (lines 1517-1520)
SSYouTubeUrl(videoUrl) ==
    Replace(Replace(Replace(videoUrl, HostWwwYoutube, HostSSYoutube),
                    HostYoutube, HostSSYoutube),
            PrefixYoutuBe, PrefixSSWatch)

\* the initial delay(REQUEST_DELAY) elapsed: the analyze / fetch request is issued
IssueFirstRequest(a) ==
    /\ pc[a] = "delay"
    /\ delays' = [delays EXCEPT ![a] = @ \o delay(REQUEST_DELAY)]
    /\ ssUrl' = IF a = "ssyoutube" THEN SSYouTubeUrl(sourceUrl) ELSE ssUrl
    /\ pc' = [pc EXCEPT ![a] = IF a \in TwoPhase THEN "analyzing" ELSE "fetching"]
    /\ requests' = [requests EXCEPT ![a] = @ + 1]
    /\ inFlight' = [inFlight EXCEPT ![a] = @ + 1]
    /\ UNCHANGED <<sourceUrl, calls, videoId, callPc, invoked, invocations, items, convIndex,
                   directUrls, settled, failure, convertLog, joinVars>>

\* where the adapter stands after its outer catch: it has returned, and the
\* request that failed is not issued again
RetryAfterOuterCatch(a) == "delay"
AfterOuterCatch(a) == "failed"

\* the diagnostic of a failed analyze / fetch
FailureOf(kind) ==
    CASE kind = "error" -> "request"
      [] kind = "malformed" -> "malformed"
      [] kind = "notok" -> "status"

\* the analyze request failed, or its status is not 'ok': outer catch
AnalyzeFails(a) ==
    /\ a \in TwoPhase
    /\ pc[a] = "analyzing"
    /\ \E resp \in AnalyzeResponses(a) :
        /\ resp.kind # "ok"
        /\ failure' = [failure EXCEPT ![a] = FailureOf(resp.kind)]
    /\ pc' = [pc EXCEPT ![a] = AfterOuterCatch(a)]
    /\ settled' = [settled EXCEPT ![a] = CatchOuter(a)]
    /\ inFlight' = [inFlight EXCEPT ![a] = @ - 1]
    /\ UNCHANGED <<sourceUrl, calls, videoId, callPc, invoked, delays, invocations, ssUrl,
                   items, convIndex, directUrls,
                   requests, convertLog, joinVars>>

\* the analyze response is 'ok': parse the candidates; with none the loop is
\* skipped and the adapter returns, otherwise it awaits the first convert delay
AnalyzeOk(a) ==
    /\ a \in TwoPhase
    /\ pc[a] = "analyzing"
    /\ \E resp \in AnalyzeResponses(a) :
        /\ resp.kind = "ok"
        /\ LET downloads == ParseFormats(a, getVideoId(sourceUrl), resp) IN
           /\ items' = [items EXCEPT ![a] = downloads]
           /\ IF maxConversions(a, downloads) = 0
              THEN /\ pc' = [pc EXCEPT ![a] = "done"]
                   /\ settled' = [settled EXCEPT ![a] = ReturnLinks(a, directUrls[a])]
              ELSE /\ pc' = [pc EXCEPT ![a] = "convertDelay"]
                   /\ UNCHANGED settled
    /\ inFlight' = [inFlight EXCEPT ![a] = @ - 1]
    /\ UNCHANGED <<sourceUrl, calls, videoId, callPc, invoked, delays, invocations, ssUrl,
                   convIndex, directUrls, failure,
                   requests, convertLog, joinVars>>

\* the convert request of an iteration is issued when the await of that
\* iteration's delay resumes, never while an earlier await is outstanding
ConvertMayStartWhileConverting(a) == pc[a] \in {"convertDelay", "converting"}
ConvertMayStart(a) == pc[a] = "convertDelay"

\* the delay inside the loop elapsed: the convert request for items[i] is issued
IssueConvert(a) ==
    /\ ConvertMayStart(a)
    /\ delays' = [delays EXCEPT ![a] = @ \o delay(REQUEST_DELAY)]
    /\ pc' = [pc EXCEPT ![a] = "converting"]
    /\ requests' = [requests EXCEPT ![a] = @ + 1]
    /\ inFlight' = [inFlight EXCEPT ![a] = @ + 1]
    /\ convertLog' = [convertLog EXCEPT ![a] =
                        Append(@, [k |-> items[a][convIndex[a] + 1].k, outcome |-> "inflight"])]
    /\ UNCHANGED <<sourceUrl, calls, videoId, callPc, invoked, invocations, ssUrl, items,
                   convIndex, directUrls, settled, failure, joinVars>>

\* the convert request rejected, or its body lacks the fields read: the
\* error is thrown inside the inner try
ConvertThrows(resp) == resp.kind \in {"error", "malformed"}

\* the inner catch (lines 1408-1410, 1497-1499): console.warn(...), and the
\* loop goes on
CatchInnerRethrows(a) == "rethrow"
CatchInner(a) == "continue"

\* the loop condition i < maxConversions
LoopConditionNever(a, i) == FALSE
LoopCondition(a, i) == i < maxConversions(a, items[a])

\* the convert request settled: push a link or not, i++, loop or return
ConvertSettles(a) ==
    /\ pc[a] = "converting"
    /\ \E resp \in ConvertResponses(a) :
        LET pushed == ConvertOutcome(a, items[a][convIndex[a] + 1], resp)
            links == directUrls[a] \o pushed
        IN
        /\ convIndex' = [convIndex EXCEPT ![a] = @ + 1]
        /\ convertLog' = [convertLog EXCEPT ![a][Len(convertLog[a])].outcome =
                            IF pushed = <<>> THEN "none" ELSE "link"]
        /\ IF ConvertThrows(resp) /\ CatchInner(a) = "rethrow"
           THEN /\ pc' = [pc EXCEPT ![a] = "failed"]
                /\ failure' = [failure EXCEPT ![a] = "convert"]
                /\ settled' = [settled EXCEPT ![a] = CatchOuter(a)]
                /\ UNCHANGED directUrls
           ELSE /\ directUrls' = [directUrls EXCEPT ![a] = links]
                /\ UNCHANGED failure
                /\ IF LoopCondition(a, convIndex[a] + 1)
                   THEN /\ pc' = [pc EXCEPT ![a] = "convertDelay"]
                        /\ UNCHANGED settled
                   ELSE /\ pc' = [pc EXCEPT ![a] = "done"]
                        /\ settled' = [settled EXCEPT ![a] = ReturnLinks(a, links)]
    /\ inFlight' = [inFlight EXCEPT ![a] = @ - 1]
    /\ UNCHANGED <<sourceUrl, calls, videoId, callPc, invoked, delays, invocations, ssUrl,
                   items, requests, joinVars>>

\* the single fetch failed: outer catch
FetchFails(a) ==
    /\ a \in SinglePhase
    /\ pc[a] = "fetching"
    /\ \E resp \in FetchResponses(a) :
        /\ resp.kind # "ok"
        /\ failure' = [failure EXCEPT ![a] = FailureOf(resp.kind)]
    /\ pc' = [pc EXCEPT ![a] = AfterOuterCatch(a)]
    /\ settled' = [settled EXCEPT ![a] = CatchOuter(a)]
    /\ inFlight' = [inFlight EXCEPT ![a] = @ - 1]
    /\ UNCHANGED <<sourceUrl, calls, videoId, callPc, invoked, delays, invocations, ssUrl,
                   items, convIndex, directUrls,
                   requests, convertLog, joinVars>>

\* the single fetch answered: scrape the links and return them
FetchOk(a) ==
    /\ a \in SinglePhase
    /\ pc[a] = "fetching"
    /\ \E resp \in FetchResponses(a) :
        /\ resp.kind = "ok"
        /\ directUrls' = [directUrls EXCEPT ![a] = ParsePage(a, resp)]
        /\ settled' = [settled EXCEPT ![a] = ReturnLinks(a, ParsePage(a, resp))]
    /\ pc' = [pc EXCEPT ![a] = "done"]
    /\ inFlight' = [inFlight EXCEPT ![a] = @ - 1]
    /\ UNCHANGED <<sourceUrl, calls, videoId, callPc, invoked, delays, invocations, ssUrl,
                   items, convIndex, failure,
                   requests, convertLog, joinVars>>

(***************************************************************************)
(* getAllDirectUrls after the await (lines 1639-1668).                     *)
(***************************************************************************)
\* Promise.allSettled resolves once every adapter promise has settled
NeverSettled == FALSE
AnySettled == \E a \in Adapters : settled[a].status # "pending"
AllSettled == \A a \in Adapters : settled[a].status # "pending"

\* result.status === 'fulfilled' && result.value.length > 0
Contributes(r) == r.status = "fulfilled" /\ Len(r.value) > 0

\* results.forEach(...): allDownloads over the first n results
RECURSIVE CollectDownloads(_, _)
CollectDownloads(results, n) ==
    IF n = 0 THEN <<>>
    ELSE CollectDownloads(results, n - 1)
         \o (IF Contributes(results[n]) THEN results[n].value ELSE <<>>)

\* results.forEach(...): services over the first n results
RECURSIVE CollectServices(_, _)
CollectServices(results, n) ==
    IF n = 0 THEN <<>>
    ELSE CollectServices(results, n - 1)
         \o (IF Contributes(results[n]) THEN <<serviceNames[n]>> ELSE <<>>)

\* the object returned at the end (lines 1663-1668)
BuildResultAlwaysSuccess(sorted, services) ==
    [success |-> TRUE, downloads |-> sorted, services |-> services, total |-> Len(sorted)]
BuildResult(sorted, services) ==
    [success |-> Len(sorted) > 0, downloads |-> sorted, services |-> services,
     total |-> Len(sorted)]

\* Once every adapter has settled: collect, deduplicate, rank, return.  The
\* call rejects if the comparator throws.
Join ==
    /\ callPc = "waiting"
    /\ AllSettled
    /\ LET results == [n \in 1..Len(serviceNames) |-> settled[serviceNames[n]]] IN
       /\ allDownloads' = CollectDownloads(results, Len(results))
       /\ uniqueDownloads' = removeDuplicates(allDownloads')
       /\ IF ComparatorThrows(uniqueDownloads')
          THEN /\ callPc' = "rejected"
               /\ UNCHANGED <<sortedDownloads, result>>
          ELSE /\ callPc' = "done"
               /\ sortedDownloads' \in sortByQuality(uniqueDownloads')
               /\ result' = BuildResult(sortedDownloads',
                                        CollectServices(results, Len(results)))
    /\ UNCHANGED <<sourceUrl, calls, videoId, adapterVars>>

Next ==
    \/ RejectInvalidUrl
    \/ Dispatch
    \/ \E a \in Adapters :
        \/ IssueFirstRequest(a)
        \/ AnalyzeFails(a)
        \/ AnalyzeOk(a)
        \/ IssueConvert(a)
        \/ ConvertSettles(a)
        \/ FetchFails(a)
        \/ FetchOk(a)
    \/ Join

Spec == Init /\ [][Next]_vars

(***************************************************************************)
(* The same call under the scheduling the runtime provides: the timer set  *)
(* by delay fires (setTimeout, line 1267), a request issued through        *)
(* this.axios responds, errors or times out (timeout: TIMEOUT, line 1249), *)
(* and code that is ready to run is run.                                   *)
(***************************************************************************)
PcStates ==
    {"idle", "delay", "analyzing", "fetching", "convertDelay", "converting", "done", "failed"}

\* the positions at which an adapter awaits a timer or a response
Awaiting == {"delay", "analyzing", "fetching", "convertDelay", "converting"}

\* adapter a leaves its await: a step of IssueFirstRequest, AnalyzeFails,
\* AnalyzeOk, IssueConvert, ConvertSettles, FetchFails or FetchOk
Resumes(a) ==
    /\ pc[a] \in Awaiting
    /\ \E p \in PcStates \ {pc[a]} : pc' = [pc EXCEPT ![a] = p]

\* getAllDirectUrls runs from its start to its await or return, and from its
\* await, once every promise has settled, to its end: a step of
\* RejectInvalidUrl, Dispatch or Join
CoordinatorRuns ==
    \/ callPc = "start" /\ callPc' \in {"waiting", "done"}
    \/ callPc = "waiting" /\ AllSettled /\ callPc' \in {"done", "rejected"}

LiveSpec ==
    /\ Spec
    /\ WF_callPc(CoordinatorRuns)
    /\ \A a \in Adapters : WF_pc(Resumes(a))

(***************************************************************************)
(* removeDuplicates and sortByQuality applied to arbitrary lists of links. *)
(***************************************************************************)
Link(directUrl, quality, format, type, service) ==
    [directUrl |-> directUrl, quality |-> quality, format |-> format, type |-> type,
     service |-> service]

LinkPool ==
    { Link(HrefA, Q360p, StrMp4, "video", "y2mate"),
      Link(HrefA, Q360p, StrMp4, "video", "ssyoutube"),
      Link(HrefA, Q1080p, StrMp4, "video", "y2mate"),
      Link(HrefA, QHD, StrMp4, "video", "9convert"),
      Link(HrefA, StrAuto, StrMp4, "video", "loader.to"),
      Link(HrefAhd, StrAuto, StrMp4, "video", "ssyoutube"),
      Link(HrefA, Q720p, StrMp4, "video", "9convert"),
      Link(HrefAhd, Qsd, StrMp4, "video", "9convert"),
      Link(HrefA, QhdSd, StrMp4, "video", "9convert"),
      Link(HrefA, QConstructor, StrMp3, "audio", "y2mate") }

\* the sequences over S of length at most n
SeqsUpTo(S, n) == UNION {[1..m -> S] : m \in 0..n}

PureInit ==
    /\ sourceUrl = <<>>
    /\ videoId = <<>>
    /\ callPc = "input"
    /\ invoked = [a \in Adapters |-> 0]
    /\ pc = [a \in Adapters |-> "idle"]
    /\ items = [a \in Adapters |-> <<>>]
    /\ convIndex = [a \in Adapters |-> 0]
    /\ directUrls = [a \in Adapters |-> <<>>]
    /\ settled = [a \in Adapters |-> Pending]
    /\ failure = [a \in Adapters |-> "none"]
    /\ requests = [a \in Adapters |-> 0]
    /\ inFlight = [a \in Adapters |-> 0]
    /\ convertLog = [a \in Adapters |-> <<>>]
    /\ delays = [a \in Adapters |-> <<>>]
    /\ invocations = [a \in Adapters |-> <<>>]
    /\ ssUrl = <<>>
    /\ calls = <<>>
    /\ allDownloads \in SeqsUpTo(LinkPool, MaxLen)
    /\ uniqueDownloads = <<>>
    /\ sortedDownloads = <<>>
    /\ result = NoResult

\* const uniqueDownloads = this.removeDuplicates(allDownloads)
ApplyRemoveDuplicates ==
    /\ callPc = "input"
    /\ uniqueDownloads' = removeDuplicates(allDownloads)
    /\ callPc' = "unique"
    /\ UNCHANGED <<sourceUrl, calls, videoId, adapterVars, allDownloads, sortedDownloads, result>>

\* const sortedDownloads = this.sortByQuality(uniqueDownloads)
ApplySortByQuality ==
    /\ callPc = "unique"
    /\ ~ComparatorThrows(uniqueDownloads)
    /\ sortedDownloads' \in sortByQuality(uniqueDownloads)
    /\ callPc' = "sorted"
    /\ UNCHANGED <<sourceUrl, calls, videoId, adapterVars, allDownloads, uniqueDownloads, result>>

PureNext == ApplyRemoveDuplicates \/ ApplySortByQuality

PureSpec == PureInit /\ [][PureNext]_vars

(***************************************************************************)
(* getVideoId applied to URLs that one or several patterns match.          *)
(***************************************************************************)
\* what the URLs are made of: a host and path up to where an id may stand,
\* an id (or nothing), and what separates it from a second such part
IdFragments ==
    { <<"y","o","u","t","u",".","b","e","/">>,
      <<"y","o","u","t","u","b","e",".","c","o","m","/","w","a","t","c","h","?","v","=">>,
      <<"y","o","u","t","u","b","e",".","c","o","m","/","s","h","o","r","t","s","/">>,
      <<"y","o","u","t","u","b","e",".","c","o","m","/","v","/">>,
      <<"i","n","s","t","a","g","r","a","m",".","c","o","m","/","r","e","e","l","/">>,
      <<"t","i","k","t","o","k",".","c","o","m","/","@","u","/","v","i","d","e","o","/">>,
      <<"v","m",".","t","i","k","t","o","k",".","c","o","m","/">>,
      <<"f","b",".","w","a","t","c","h","/">>,
      <<"x",".","c","o","/">> }
IdFirstIds == {<<"a","b","c","1","2","3">>, <<>>}
IdSecondIds == {<<"z","9">>, <<>>}
IdSeparators == {<<"?","u","=">>, <<"/">>, <<"&">>}

IdUrls ==
    {StrHttps \o f \o i : f \in IdFragments, i \in IdFirstIds}
    \cup {StrHttps \o f \o i \o sep \o g \o j :
            f \in IdFragments, i \in IdFirstIds, sep \in IdSeparators,
            g \in IdFragments, j \in IdSecondIds}

IdInit ==
    /\ sourceUrl \in IdUrls
    /\ videoId = <<>>
    /\ callPc = "input"
    /\ invoked = [a \in Adapters |-> 0]
    /\ pc = [a \in Adapters |-> "idle"]
    /\ items = [a \in Adapters |-> <<>>]
    /\ convIndex = [a \in Adapters |-> 0]
    /\ directUrls = [a \in Adapters |-> <<>>]
    /\ settled = [a \in Adapters |-> Pending]
    /\ failure = [a \in Adapters |-> "none"]
    /\ requests = [a \in Adapters |-> 0]
    /\ inFlight = [a \in Adapters |-> 0]
    /\ convertLog = [a \in Adapters |-> <<>>]
    /\ delays = [a \in Adapters |-> <<>>]
    /\ invocations = [a \in Adapters |-> <<>>]
    /\ ssUrl = <<>>
    /\ calls = <<>>
    /\ allDownloads = <<>>
    /\ uniqueDownloads = <<>>
    /\ sortedDownloads = <<>>
    /\ result = NoResult

\* const videoId = this.getVideoId(videoUrl)
ApplyGetVideoId ==
    /\ callPc = "input"
    /\ videoId' = getVideoId(sourceUrl)
    /\ callPc' = "extracted"
    /\ UNCHANGED <<sourceUrl, calls, adapterVars, joinVars>>

IdNext == ApplyGetVideoId

IdSpec == IdInit /\ [][IdNext]_vars

(***************************************************************************)
(* The URL rewrite of parseSSYouTube applied to source URLs of several     *)
(* hosts.                                                                  *)
(***************************************************************************)
RewriteSchemes == {StrHttps, <<"h","t","t","p",":","/","/">>}
RewriteHosts ==
    { HostWwwYoutube, HostYoutube, <<"m",".">> \o HostYoutube,
      <<"y","o","u","t","u",".","b","e">>, <<"x",".","c","o">> }
RewritePaths ==
    { <<>>,
      <<"/","w","a","t","c","h","?","v","=","a","b","c">>,
      <<"/","a","b","c">>,
      <<"/","e","m","b","e","d","/","a","b","c">>,
      <<"/","w","a","t","c","h","?","v","=","a","b","c","&","l","i","s","t","=","x">>,
      <<"/","w","a","t","c","h","?","v","=","a","b","c","&","u","=","y","o","u","t","u",".","b","e","/","z">> }

RewriteUrls == {s \o h \o p : s \in RewriteSchemes, h \in RewriteHosts, p \in RewritePaths}

RewriteInit ==
    /\ sourceUrl \in RewriteUrls
    /\ videoId = <<>>
    /\ callPc = "input"
    /\ invoked = [a \in Adapters |-> 0]
    /\ pc = [a \in Adapters |-> "idle"]
    /\ items = [a \in Adapters |-> <<>>]
    /\ convIndex = [a \in Adapters |-> 0]
    /\ directUrls = [a \in Adapters |-> <<>>]
    /\ settled = [a \in Adapters |-> Pending]
    /\ failure = [a \in Adapters |-> "none"]
    /\ requests = [a \in Adapters |-> 0]
    /\ inFlight = [a \in Adapters |-> 0]
    /\ convertLog = [a \in Adapters |-> <<>>]
    /\ delays = [a \in Adapters |-> <<>>]
    /\ invocations = [a \in Adapters |-> <<>>]
    /\ ssUrl = <<>>
    /\ calls = <<>>
    /\ allDownloads = <<>>
    /\ uniqueDownloads = <<>>
    /\ sortedDownloads = <<>>
    /\ result = NoResult

\* const ssUrl = videoUrl.replace(...).replace(...).replace(...)
ApplySSYouTubeRewrite ==
    /\ callPc = "input"
    /\ ssUrl' = SSYouTubeUrl(sourceUrl)
    /\ callPc' = "rewritten"
    /\ UNCHANGED <<sourceUrl, calls, videoId, invoked, pc, items, convIndex, directUrls,
                   settled, failure, requests, inFlight, convertLog, delays, invocations,
                   joinVars>>

RewriteNext == ApplySSYouTubeRewrite

RewriteSpec == RewriteInit /\ [][RewriteNext]_vars

(***************************************************************************)
(* The older coordinator DirectVideoDownloader.getAllDirectUrls (lines     *)
(* 446-503) over its four adapters.  Each adapter is taken from its call   *)
(* to its return in one step: every one wraps its body in try / catch and  *)
(* returns [] from the catch.  A JSON value that is not a string is one of *)
(* NonStrings.                                                             *)
(***************************************************************************)
directServiceNames == <<"savefrom", "y2mate", "loader.to", "savetube">>
DirectAdapters == {directServiceNames[i] : i \in 1..Len(directServiceNames)}

JsonNumber == <<"#number">>
JsonNull == <<"#null">>

\* v || fallback: null, undefined and the empty string are falsy (a number
\* other than 0 is not)
OrFallback(v, fallback) == IF v \in {<<>>, JsonNull} THEN fallback ELSE v

\* an item of response.data.downloads
SaveTubeItem(url, quality, format) == [url |-> url, quality |-> quality, format |-> format]

\* what the savetube request can come back with: an error, a JSON body with
\* a status and download items, or an HTML page with download elements
SaveTubeResponses ==
    { [kind |-> "error", status |-> "", downloads |-> <<>>],
      [kind |-> "json", status |-> "fail", downloads |-> <<SaveTubeItem(HrefA, Q720p, StrMp4)>>],
      [kind |-> "json", status |-> "success", downloads |-> <<SaveTubeItem(HrefA, Q720p, StrMp4)>>],
      [kind |-> "json", status |-> "success",
       downloads |-> <<SaveTubeItem(HrefA, JsonNull, JsonNull), SaveTubeItem(HrefRel, Q360p, StrMp4)>>],
      [kind |-> "json", status |-> "success", downloads |-> <<SaveTubeItem(HrefA, JsonNumber, StrMp4)>>],
      [kind |-> "json", status |-> "success",
       downloads |-> <<SaveTubeItem(HrefA, JsonNumber, StrMp4), SaveTubeItem(HrefAhd, Q1080p, StrMp4)>>],
      [kind |-> "json", status |-> "success", downloads |-> <<SaveTubeItem(JsonNumber, Q720p, StrMp4)>>],
      [kind |-> "html", status |-> "", downloads |-> <<SaveTubeItem(HrefAhd, <<>>, <<"M","P","3">>)>>] }

\* item.url.startsWith('http') throws unless url is a string
SaveTubeThrows(resp) ==
    \/ resp.kind = "error"
    \/ /\ resp.kind = "json" /\ resp.status = "success"
       /\ \E n \in 1..Len(resp.downloads) : resp.downloads[n].url \in NonStrings

\* the forEach / each of parseSaveTube (lines 400-431)
RECURSIVE SaveTubeLinks(_, _)
SaveTubeLinks(kind, els) ==
    IF els = <<>> THEN <<>>
    ELSE LET item == Head(els) IN
         (IF item.url # <<>> /\ HasAt(item.url, 1, <<"h","t","t","p">>)
          THEN IF kind = "json"
               THEN <<[directUrl |-> item.url,
                       quality |-> OrFallback(item.quality, StrAuto),
                       format |-> OrFallback(item.format, StrMp4),
                       service |-> "savetube",
                       type |-> "video"]>>
               ELSE <<[directUrl |-> item.url,
                       quality |-> OrFallback(item.quality, StrAuto),
                       format |-> toLowerCase(OrFallback(item.format, StrMp4)),
                       service |-> "savetube",
                       type |-> IF OrFallback(item.format, StrMp4) = StrMp3
                                THEN "audio" ELSE "video"]>>
          ELSE <<>>)
         \o SaveTubeLinks(kind, Tail(els))

\* parseSaveTube (lines 378-441): what the adapter returns
parseSaveTube(resp) ==
    IF SaveTubeThrows(resp) THEN <<>>
    ELSE IF resp.kind = "json" /\ resp.status # "success" THEN <<>>
    ELSE SaveTubeLinks(resp.kind, resp.downloads)

\* what parseSaveFromNet, the older parseY2Mate and the older parseLoaderTo
\* can return: nothing (their catch, or no link found), or one link whose
\* quality is element text, a regular-expression match or a literal
DirectOutputs(a, videoUrl) ==
    CASE a = "savefrom" ->
           {<<>>, <<[directUrl |-> HrefGv, quality |-> QHD, format |-> StrMp4,
                     service |-> "savefrom", type |-> "video"]>>}
      [] a = "y2mate" ->
           IF getVideoId(videoUrl) = <<>> THEN {<<>>}
           ELSE {<<>>, <<[directUrl |-> HrefA, quality |-> Q720p, format |-> StrMp4,
                          service |-> "y2mate", type |-> "video"]>>}
      [] a = "loader.to" ->
           {<<>>, <<[directUrl |-> HrefA, quality |-> StrAuto, format |-> StrMp3,
                     service |-> "loader.to", type |-> "audio"]>>}
      [] a = "savetube" -> {parseSaveTube(resp) : resp \in SaveTubeResponses}

\* the object literal qualityOrder of the older sortByQuality (lines 494-496)
directQualityOrder ==
    { <<Q1080p, 5>>, <<Q720p, 4>>, <<<<"4","8","0","p">>, 3>>, <<Q360p, 2>>,
      <<StrAuto, 1>>, <<StrUnknown, 0>> }

\* qualityOrder[x.quality.toLowerCase()] || 0
DirectScore(quality) ==
    LET key == toLowerCase(quality) IN
    OrZero(IF \E e \in directQualityOrder : e[1] = key
           THEN JsNumber((CHOOSE e \in directQualityOrder : e[1] = key)[2])
           ELSE IF key \in ObjectPrototypeKeys THEN JsObject ELSE JsUndefined)

\* the comparator result as the sort reads it: NaN counts as 0
DirectSortCompare(a, b) ==
    IF DirectScore(a.quality).kind = "number" /\ DirectScore(b.quality).kind = "number"
    THEN DirectScore(b.quality).num - DirectScore(a.quality).num
    ELSE 0

RECURSIVE DirectInsertFromRight(_, _, _)
DirectInsertFromRight(s, x, j) ==
    IF j = 0 \/ DirectSortCompare(s[j], x) <= 0
    THEN SubSeq(s, 1, j) \o <<x>> \o SubSeq(s, j + 1, Len(s))
    ELSE DirectInsertFromRight(s, x, j - 1)

RECURSIVE DirectStableSort(_)
DirectStableSort(downloads) ==
    IF Len(downloads) <= 1 THEN downloads
    ELSE LET front == DirectStableSort(SubSeq(downloads, 1, Len(downloads) - 1))
         IN DirectInsertFromRight(front, downloads[Len(downloads)], Len(front))

\* a.quality.toLowerCase() (lines 499-500) throws a TypeError unless quality
\* is a string; the comparator runs when the list has two or more elements
DirectComparatorThrows(downloads) ==
    /\ Len(downloads) >= 2
    /\ \E n \in 1..Len(downloads) : downloads[n].quality \in NonStrings

\* the older sortByQuality (lines 493-503) on a list it does not throw on
directSortByQuality(downloads) ==
    IF Len(downloads) < 2 THEN {downloads}
    ELSE IF \A n \in 1..Len(downloads) : DirectScore(downloads[n].quality).kind = "number"
    THEN {DirectStableSort(downloads)}
    ELSE Reorderings(downloads)

DirectFrame ==
    <<sourceUrl, videoId, invoked, pc, items, convIndex, directUrls, failure, requests,
      inFlight, convertLog, delays, invocations, ssUrl, calls>>

DirectInit ==
    /\ sourceUrl \in {UrlYoutuBe, UrlNoId}
    /\ videoId = <<>>
    /\ callPc = "start"
    /\ invoked = [a \in DirectAdapters |-> 0]
    /\ pc = [a \in DirectAdapters |-> "idle"]
    /\ items = [a \in DirectAdapters |-> <<>>]
    /\ convIndex = [a \in DirectAdapters |-> 0]
    /\ directUrls = [a \in DirectAdapters |-> <<>>]
    /\ settled = [a \in DirectAdapters |-> Pending]
    /\ failure = [a \in DirectAdapters |-> "none"]
    /\ requests = [a \in DirectAdapters |-> 0]
    /\ inFlight = [a \in DirectAdapters |-> 0]
    /\ convertLog = [a \in DirectAdapters |-> <<>>]
    /\ delays = [a \in DirectAdapters |-> <<>>]
    /\ invocations = [a \in DirectAdapters |-> <<>>]
    /\ ssUrl = <<>>
    /\ calls = <<>>
    /\ allDownloads = <<>>
    /\ uniqueDownloads = <<>>
    /\ sortedDownloads = <<>>
    /\ result = NoResult

\* lines 449-454: the four adapters are called; there is no validation
DirectDispatch ==
    /\ callPc = "start"
    /\ callPc' = "waiting"
    /\ UNCHANGED <<DirectFrame, settled, joinVars>>

\* adapter a returns
DirectSettle(a) ==
    /\ callPc = "waiting"
    /\ settled[a].status = "pending"
    /\ \E links \in DirectOutputs(a, sourceUrl) :
          settled' = [settled EXCEPT ![a] = Fulfilled(links)]
    /\ UNCHANGED <<DirectFrame, callPc, joinVars>>

\* lines 456-480: collect, deduplicate, rank, return; an error thrown by the
\* comparator is not caught, and the call rejects
DirectJoin ==
    /\ callPc = "waiting"
    /\ \A a \in DirectAdapters : settled[a].status # "pending"
    /\ LET results == [n \in 1..Len(directServiceNames) |-> settled[directServiceNames[n]]]
           services == SelectSeq(directServiceNames, LAMBDA a : Contributes(settled[a]))
       IN
       /\ allDownloads' = CollectDownloads(results, Len(results))
       /\ uniqueDownloads' = removeDuplicates(allDownloads')
       /\ IF DirectComparatorThrows(uniqueDownloads')
          THEN /\ callPc' = "rejected"
               /\ UNCHANGED <<sortedDownloads, result>>
          ELSE /\ callPc' = "done"
               /\ sortedDownloads' \in directSortByQuality(uniqueDownloads')
               /\ result' = [success |-> Len(sortedDownloads') > 0,
                             downloads |-> sortedDownloads',
                             services |-> services,
                             total |-> Len(sortedDownloads')]
    /\ UNCHANGED <<DirectFrame, settled>>

DirectNext ==
    \/ DirectDispatch
    \/ \E a \in DirectAdapters : DirectSettle(a)
    \/ DirectJoin

DirectSpec == DirectInit /\ [][DirectNext]_vars

(***************************************************************************)
(* Two getAllDirectUrls calls interleaved on one RealVideoDownloader.  The  *)
(* instance holds this.axios and nothing else (lines 1247-1263); videoUrl,  *)
(* results, allDownloads and services are locals of the call (lines         *)
(* 1627-1668).  Each adapter is taken from its call to its return in one    *)
(* step; every link carries the call whose adapter built it.                *)
(***************************************************************************)
CallIds == {1, 2}

\* where the locals of call c live: in the activation of that call
FrameOfShared(c) == 1
FrameOf(c) == c

NewCall(videoUrl) ==
    [videoUrl |-> videoUrl, pc |-> "start", settled |-> [a \in Adapters |-> Pending],
     allDownloads |-> <<>>, services |-> <<>>, result |-> NoResult]

\* a link with the call that obtained it
Stamp(c, links) == [n \in 1..Len(links) |-> links[n] @@ [origin |-> c]]

\* what an adapter called with videoUrl can return, over the upstream
\* responses modelled: nothing, or the links of one response
AdapterOutputs(a, videoUrl) ==
    IF a \in RequiresVideoId /\ getVideoId(videoUrl) = <<>>
    THEN {<<>>}
    ELSE IF a \in SinglePhase
    THEN {<<>>} \cup {ParsePage(a, resp) : resp \in {r \in FetchResponses(a) : r.kind = "ok"}}
    ELSE {<<>>} \cup
         {ConvertOutcome(a, ParseFormats(a, getVideoId(videoUrl), resp)[1],
                         ConvertResponse("ok", <<HrefA>>)) :
            resp \in {r \in AnalyzeResponses(a) : r.kind = "ok" /\ Len(r.rows) > 0}}

PairFrame == <<sourceUrl, videoId, callPc, adapterVars, joinVars>>

PairInit ==
    /\ \E u \in SourceUrls : \E v \in SourceUrls \ {u} :
          calls = [c \in CallIds |-> NewCall(IF c = 1 THEN u ELSE v)]
    /\ sourceUrl = <<>>
    /\ videoId = <<>>
    /\ callPc = "pair"
    /\ invoked = [a \in Adapters |-> 0]
    /\ pc = [a \in Adapters |-> "idle"]
    /\ items = [a \in Adapters |-> <<>>]
    /\ convIndex = [a \in Adapters |-> 0]
    /\ directUrls = [a \in Adapters |-> <<>>]
    /\ settled = [a \in Adapters |-> Pending]
    /\ failure = [a \in Adapters |-> "none"]
    /\ requests = [a \in Adapters |-> 0]
    /\ inFlight = [a \in Adapters |-> 0]
    /\ convertLog = [a \in Adapters |-> <<>>]
    /\ delays = [a \in Adapters |-> <<>>]
    /\ invocations = [a \in Adapters |-> <<>>]
    /\ ssUrl = <<>>
    /\ allDownloads = <<>>
    /\ uniqueDownloads = <<>>
    /\ sortedDownloads = <<>>
    /\ result = NoResult

\* lines 1631-1636 in call c
PairRejectInvalidUrl(c) ==
    /\ calls[c].pc = "start"
    /\ ~isValidUrl(calls[c].videoUrl)
    /\ calls' = [calls EXCEPT ![c].pc = "done", ![c].result = InvalidUrlResult]
    /\ UNCHANGED PairFrame

\* lines 1639-1644 in call c: the four adapters are called; those without a
\* video id have settled when the call reaches its await
PairDispatch(c) ==
    /\ calls[c].pc = "start"
    /\ isValidUrl(calls[c].videoUrl)
    /\ calls' = [calls EXCEPT
                   ![c].pc = "waiting",
                   ![c].settled = [a \in Adapters |->
                                     IF a \in RequiresVideoId /\ getVideoId(calls[c].videoUrl) = <<>>
                                     THEN CatchOuter(a) ELSE Pending]]
    /\ UNCHANGED PairFrame

\* adapter a of call c returns
PairSettle(c, a) ==
    /\ calls[c].pc = "waiting"
    /\ calls[c].settled[a].status = "pending"
    /\ \E links \in AdapterOutputs(a, calls[c].videoUrl) :
          calls' = [calls EXCEPT ![c].settled[a] = ReturnLinks(a, Stamp(c, links))]
    /\ UNCHANGED PairFrame

\* lines 1646-1668 in call c
PairJoin(c) ==
    /\ calls[c].pc = "waiting"
    /\ \A a \in Adapters : calls[c].settled[a].status # "pending"
    /\ LET results == [n \in 1..Len(serviceNames) |-> calls[c].settled[serviceNames[n]]]
           frame == FrameOf(c)
           all == calls[frame].allDownloads \o CollectDownloads(results, Len(results))
           services == calls[frame].services \o CollectServices(results, Len(results))
           unique == removeDuplicates(all)
       IN  IF ComparatorThrows(unique)
           THEN calls' = [calls EXCEPT ![frame].allDownloads = all,
                                       ![frame].services = services,
                                       ![c].pc = "rejected"]
           ELSE \E sorted \in sortByQuality(unique) :
                  calls' = [calls EXCEPT ![frame].allDownloads = all,
                                         ![frame].services = services,
                                         ![c].pc = "done",
                                         ![c].result = BuildResult(sorted, services)]
    /\ UNCHANGED PairFrame

PairNext ==
    \E c \in CallIds :
        \/ PairRejectInvalidUrl(c)
        \/ PairDispatch(c)
        \/ \E a \in Adapters : PairSettle(c, a)
        \/ PairJoin(c)

PairSpec == PairInit /\ [][PairNext]_vars

(***************************************************************************)
(* Properties.                                                             *)
(***************************************************************************)
\* the deduplication key of the specification: the three fields as a tuple
Triple(d) == <<d.directUrl, d.quality, d.format>>

\* the score table of the specification: a case-insensitive lookup of the
\* label, every label outside the table scoring 0
TableScore(quality) ==
    LET label == toLowerCase(quality) IN
    CASE label \in {<<"2","1","6","0","p">>, <<"4","k">>} -> 7
      [] label = <<"1","4","4","0","p">> -> 6
      [] label \in {<<"1","0","8","0","p">>, <<"h","d">>, <<"h","i","g","h">>} -> 5
      [] label = <<"7","2","0","p">> -> 4
      [] label \in {<<"4","8","0","p">>, <<"s","d">>} -> 3
      [] label = <<"3","6","0","p">> -> 2
      [] label \in {<<"2","4","0","p">>, <<"l","o","w">>} -> 1
      [] OTHER -> 0

\* the links are in non-increasing order of table score
RankedByTable(downloads) ==
    \A i, j \in 1..Len(downloads) :
        i < j => TableScore(downloads[i].quality) >= TableScore(downloads[j].quality)

Terminal(a) == pc[a] \in {"done", "failed"}

\* the links returned by the adapters that did not fail, among the first n
\* adapters, in invocation order
RECURSIVE LinksOfNonFailing(_)
LinksOfNonFailing(n) ==
    IF n = 0 THEN <<>>
    ELSE LinksOfNonFailing(n - 1)
         \o (IF pc[serviceNames[n]] = "done" THEN directUrls[serviceNames[n]] ELSE <<>>)

\* the adapters, among the first n, that returned at least one link
RECURSIVE ServicesWithLinks(_)
ServicesWithLinks(n) ==
    IF n = 0 THEN <<>>
    ELSE ServicesWithLinks(n - 1)
         \o (IF pc[serviceNames[n]] = "done" /\ directUrls[serviceNames[n]] # <<>>
             THEN <<serviceNames[n]>> ELSE <<>>)

\* C1 (as claimed): for a valid URL, whatever subset of the adapters fails,
\* the result holds exactly one link per distinct (directUrl, quality, format)
\* returned by the non-failing adapters, ranked by table score; success is
\* true iff there is such a link, total counts them, and services lists the
\* adapters that returned links (two distinct links of one adapter, the
\* others failing, give total 2).
C1_AdapterIsolation ==
    (callPc = "done" /\ isValidUrl(sourceUrl)) =>
        LET links == LinksOfNonFailing(Len(serviceNames))
            triples == {Triple(links[n]) : n \in 1..Len(links)}
        IN /\ result.success = (links # <<>>)
           /\ result.total = Cardinality(triples)
           /\ {Triple(result.downloads[n]) : n \in 1..Len(result.downloads)} = triples
           /\ RankedByTable(result.downloads)
           /\ result.services = ServicesWithLinks(Len(serviceNames))

\* C2: no adapter promise is ever rejected; an adapter that reached a terminal
\* state has fulfilled its promise, and one whose analyze / fetch step failed
\* (no video id, request error or timeout, status other than 'ok', malformed
\* body) has fulfilled it with the empty sequence.
C2_FailSoft ==
    \A a \in Adapters :
        /\ settled[a].status \in {"pending", "fulfilled"}
        /\ (Terminal(a) => settled[a].status = "fulfilled")
        /\ (failure[a] # "none" => settled[a] = [status |-> "fulfilled", value |-> <<>>])
        /\ (pc[a] = "done" => settled[a].value = directUrls[a])

\* C2 witness: three adapters failed for three different reasons while the
\* fourth lost one of its two conversions and still returned the other link.
C2_Witness ==
    /\ failure["y2mate"] = "malformed"
    /\ failure["ssyoutube"] = "request"
    /\ failure["loader.to"] = "request"
    /\ pc["9convert"] = "done"
    /\ convIndex["9convert"] = 2
    /\ Len(settled["9convert"].value) = 1
    /\ \A a \in Adapters : settled[a].status = "fulfilled"

\* C3: while any dispatched adapter is still running the combined list is
\* unwritten and nothing has been returned; when the call returns for a valid
\* URL every adapter has run to its own end (a two-phase adapter that
\* analyzed successfully has converted its whole bounded prefix).
C3_WaitForAll ==
    /\ (\E a \in Adapters : pc[a] # "idle" /\ ~Terminal(a)) =>
           /\ callPc = "waiting"
           /\ allDownloads = <<>>
           /\ result = NoResult
    /\ (callPc = "done" /\ isValidUrl(sourceUrl)) =>
           \A a \in Adapters :
               /\ Terminal(a)
               /\ (pc[a] = "done" /\ a \in TwoPhase =>
                       convIndex[a] = maxConversions(a, items[a]))
               /\ (failure[a] # "noVideoId" => requests[a] >= 1)

\* C3 witness: the call returned after y2mate made all three conversions and
\* every other adapter had returned links too.
C3_Witness ==
    /\ callPc = "done"
    /\ convIndex["y2mate"] = 3
    /\ \A a \in Adapters : pc[a] = "done" /\ directUrls[a] # <<>>

\* the source URL does not begin with http:// or https:// (in any letter case)
LacksHttpScheme(url) ==
    /\ ~HasAt(toLowerCase(url), 1, <<"h","t","t","p",":","/","/">>)
    /\ ~HasAt(toLowerCase(url), 1, <<"h","t","t","p","s",":","/","/">>)

\* C4 (as claimed): for a source URL without an http/https scheme the call
\* returns success false, total 0, empty downloads and services, and no
\* adapter is invoked and no request issued.
C4_InvalidUrlResult ==
    (callPc = "done" /\ LacksHttpScheme(sourceUrl)) =>
        /\ result.success = FALSE
        /\ result.downloads = <<>>
        /\ result.services = <<>>
        /\ \A a \in Adapters : invoked[a] = 0 /\ requests[a] = 0
        /\ "total" \in DOMAIN result
        /\ result.total = 0

Deduplicated == callPc \in {"unique", "sorted"}

\* C6 (as claimed): of two or more links of the input with the same
\* (directUrl, quality, format), removeDuplicates keeps exactly one, and it is
\* the first of them in input order, with all its fields.
C6_FirstOccurrenceKept ==
    Deduplicated =>
        \A i, j \in 1..Len(allDownloads) :
            (i < j /\ Triple(allDownloads[i]) = Triple(allDownloads[j])) =>
                LET t == Triple(allDownloads[i])
                    first == CHOOSE m \in 1..Len(allDownloads) :
                                /\ Triple(allDownloads[m]) = t
                                /\ \A k \in 1..(m - 1) : Triple(allDownloads[k]) # t
                    kept == {n \in 1..Len(uniqueDownloads) : Triple(uniqueDownloads[n]) = t}
                IN /\ Cardinality(kept) = 1
                   /\ \A n \in kept : uniqueDownloads[n] = allDownloads[first]

\* C7 (as claimed): removeDuplicates drops a link only if an earlier link of
\* the input agrees with it on directUrl, quality and format.
C7_OnlyTrueDuplicatesDropped ==
    Deduplicated =>
        \A j \in 1..Len(allDownloads) :
            (\A i \in 1..(j - 1) : Triple(allDownloads[i]) # Triple(allDownloads[j])) =>
                \E n \in 1..Len(uniqueDownloads) : uniqueDownloads[n] = allDownloads[j]

Qualities(downloads) == [n \in 1..Len(downloads) |-> downloads[n].quality]

\* C8 (as claimed): the sequence sortByQuality returns is in non-increasing
\* order of table score; qualities 360p, 1080p, auto, 720p come out as
\* 1080p, 720p, 360p, auto.
C8_RankedByScore ==
    callPc = "sorted" =>
        /\ RankedByTable(sortedDownloads)
        /\ (Qualities(uniqueDownloads) = <<Q360p, Q1080p, StrAuto, Q720p>>
               => Qualities(sortedDownloads) = <<Q1080p, Q720p, Q360p, StrAuto>>)

\* C9 (as claimed): two links of equal table score keep their relative input
\* order in the sequence sortByQuality returns.
C9_StableRanking ==
    callPc = "sorted" =>
        \A i, j \in 1..Len(uniqueDownloads) :
            (/\ i < j
             /\ TableScore(uniqueDownloads[i].quality) = TableScore(uniqueDownloads[j].quality))
            => \E m, n \in 1..Len(sortedDownloads) :
                   /\ m < n
                   /\ sortedDownloads[m] = uniqueDownloads[i]
                   /\ sortedDownloads[n] = uniqueDownloads[j]

\* C10 (as claimed): the score the comparator of sortByQuality computes for a
\* label is the table's number for it, and 0 for every label that is not a
\* key of the table.
C10_ScoreIsTableLookup ==
    (callPc = "sorted" /\ Len(sortedDownloads) >= 2) =>
        \A n \in 1..Len(sortedDownloads) :
            Score(sortedDownloads[n].quality) = JsNumber(TableScore(sortedDownloads[n].quality))

\* the caps of the two-phase adapters as the specification states them
CapOf(a) == IF a = "y2mate" THEN 3 ELSE 2

\* C11: a two-phase adapter never issues more convert requests than its cap
\* (3 for y2mate, 2 for 9convert), however many candidates the analyze phase
\* yielded; the n-th convert request carries the key of the n-th candidate,
\* and an adapter that returned has converted exactly the first min(cap, n).
C11_ConvertCap ==
    \A a \in TwoPhase :
        /\ Len(convertLog[a]) <= CapOf(a)
        /\ requests[a] <= 1 + CapOf(a)
        /\ Len(convertLog[a]) <= Len(items[a])
        /\ \A n \in 1..Len(convertLog[a]) : convertLog[a][n].k = items[a][n].k
        /\ (pc[a] = "done" =>
               Len(convertLog[a]) = (IF Len(items[a]) < CapOf(a) THEN Len(items[a]) ELSE CapOf(a)))

\* C11 witness: both two-phase adapters got more candidates than their cap and
\* returned after 3 and 2 convert requests.
C11_Witness ==
    /\ pc["y2mate"] = "done" /\ pc["9convert"] = "done"
    /\ Len(items["y2mate"]) > 3 /\ Len(convertLog["y2mate"]) = 3
    /\ Len(items["9convert"]) > 2 /\ Len(convertLog["9convert"]) = 2
    /\ requests["y2mate"] = 4 /\ requests["9convert"] = 3

\* the state of the specification's two-phase state machine an adapter is in;
\* ANALYZING runs from the adapter's first step to the analyze response, and
\* ANALYZED is the instant of AnalyzeOk
Phase(p) ==
    CASE p = "idle" -> "START"
      [] p \in {"delay", "analyzing"} -> "ANALYZING"
      [] p \in {"convertDelay", "converting"} -> "CONVERTING"
      [] p = "failed" -> "FAILED"
      [] p = "done" -> "DONE"

\* the edges of START -> ANALYZING -> (FAILED | ANALYZED) -> CONVERTING(x k) -> DONE
PhaseEdges ==
    { <<"START", "ANALYZING">>, <<"ANALYZING", "FAILED">>, <<"ANALYZING", "CONVERTING">>,
      <<"ANALYZING", "DONE">>, <<"CONVERTING", "DONE">> }

C12_Step(a) ==
    /\ (Phase(pc[a]) # Phase(pc'[a])) =>
          \/ <<Phase(pc[a]), Phase(pc'[a])>> \in PhaseEdges
          \* without a video id the analyze step fails before its request
          \/ /\ Phase(pc[a]) = "START" /\ Phase(pc'[a]) = "FAILED"
             /\ failure'[a] = "noVideoId" /\ requests'[a] = 0
    \* a convert request is issued only in CONVERTING, which is entered only
    \* from an analyze response with status 'ok'
    /\ (Len(convertLog'[a]) > Len(convertLog[a])) => Phase(pc[a]) = "CONVERTING"
    /\ (Phase(pc[a]) = "ANALYZING" /\ Phase(pc'[a]) \in {"CONVERTING", "DONE"}) =>
          /\ pc[a] = "analyzing"
          /\ failure'[a] = "none"
    \* FAILED and DONE are terminal
    /\ (pc[a] \in {"failed", "done"}) => pc'[a] = pc[a]

C12_State(a) ==
    /\ (convertLog[a] # <<>>) => (failure[a] = "none" /\ requests[a] = 1 + Len(convertLog[a]))
    /\ (pc[a] = "failed") =>
          /\ convertLog[a] = <<>>
          /\ requests[a] <= 1
          /\ settled[a] = [status |-> "fulfilled", value |-> <<>>]
    /\ (settled[a].status # "pending") <=> (pc[a] \in {"failed", "done"})
    /\ (pc[a] = "done") =>
          /\ inFlight[a] = 0
          /\ \A n \in 1..Len(convertLog[a]) : convertLog[a][n].outcome # "inflight"
          /\ Len(convertLog[a]) = (IF Len(items[a]) < CapOf(a) THEN Len(items[a]) ELSE CapOf(a))

\* C12: every two-phase adapter moves along START -> ANALYZING -> (FAILED |
\* ANALYZED) -> CONVERTING(x k) -> DONE: no convert request before an analyze
\* response with status 'ok'; a failed analyze leads to FAILED with no convert
\* request and the empty sequence; the adapter returns only when the last
\* convert of the prefix has completed.
C12_TwoPhaseStateMachine ==
    /\ [](\A a \in TwoPhase : C12_State(a))
    /\ [][\A a \in TwoPhase : C12_Step(a)]_vars

\* C12 witness: y2mate went through three conversions to DONE while 9convert
\* went to FAILED on an analyze status other than 'ok'.
C12_Witness ==
    /\ pc["y2mate"] = "done" /\ Len(convertLog["y2mate"]) = 3
    /\ pc["9convert"] = "failed" /\ failure["9convert"] = "status"
    /\ requests["9convert"] = 1

\* the positions of the convert requests that produced a link, in order
LinkedPositions(a) ==
    SelectSeq([n \in 1..Len(convertLog[a]) |-> n],
              LAMBDA n : convertLog[a][n].outcome = "link")

IsPrefix(s, t) == Len(s) <= Len(t) /\ SubSeq(t, 1, Len(s)) = s

C13_State(a) ==
    \* one link per successful conversion, carrying its candidate's labels
    /\ Len(directUrls[a]) = Len(LinkedPositions(a))
    /\ \A j \in 1..Len(LinkedPositions(a)) :
          /\ directUrls[a][j].quality = items[a][LinkedPositions(a)[j]].quality
          /\ directUrls[a][j].format = items[a][LinkedPositions(a)[j]].format
    \* a failed conversion never fails the adapter
    /\ (convertLog[a] # <<>>) => pc[a] # "failed"
    \* it returns normally, with the links obtained, after the whole prefix
    /\ (pc[a] = "done") =>
          /\ settled[a] = [status |-> "fulfilled", value |-> directUrls[a]]
          /\ Len(convertLog[a]) = (IF Len(items[a]) < CapOf(a) THEN Len(items[a]) ELSE CapOf(a))

C13_Step(a) ==
    \* links already obtained are kept
    /\ IsPrefix(directUrls[a], directUrls'[a])
    \* a conversion that yields nothing adds nothing, and the next candidate
    \* of the prefix is converted
    /\ (/\ pc[a] = "converting" /\ pc'[a] # "converting"
        /\ convertLog'[a][Len(convertLog'[a])].outcome = "none") =>
          /\ directUrls'[a] = directUrls[a]
          /\ (Len(convertLog[a]) < CapOf(a) /\ Len(convertLog[a]) < Len(items[a]))
                => pc'[a] = "convertDelay"

\* C13: a failed conversion (request error, timeout, status other than 'ok',
\* no usable link) contributes no link and nothing else changes: the links
\* obtained so far are kept, the remaining candidates of the bounded prefix are
\* still converted, and the adapter returns normally.
C13_PartialConversionFailure ==
    /\ [](\A a \in TwoPhase : C13_State(a))
    /\ [][\A a \in TwoPhase : C13_Step(a)]_vars

\* C13 witness: y2mate's second conversion failed between two that succeeded,
\* and the adapter returned the two links.
C13_Witness ==
    /\ pc["y2mate"] = "done"
    /\ [n \in 1..Len(convertLog["y2mate"]) |-> convertLog["y2mate"][n].outcome]
          = <<"link", "none", "link">>
    /\ Len(settled["y2mate"].value) = 2

C14_State(a) ==
    /\ inFlight[a] <= 1
    /\ (inFlight[a] = 1) <=> (pc[a] \in {"analyzing", "converting", "fetching"})
    \* only the latest convert request can be outstanding
    /\ \A n \in 1..Len(convertLog[a]) :
          (convertLog[a][n].outcome = "inflight") => (n = Len(convertLog[a]) /\ pc[a] = "converting")

C14_Step(a) ==
    \* the next convert request is issued only once the previous one settled
    (Len(convertLog'[a]) > Len(convertLog[a])) =>
        /\ inFlight[a] = 0
        /\ Len(convertLog'[a]) = Len(convertLog[a]) + 1
        /\ convIndex[a] = Len(convertLog[a])
        /\ \A n \in 1..Len(convertLog[a]) : convertLog[a][n].outcome # "inflight"

\* C14: within one two-phase adapter at most one convert request is in flight
\* at any time, and the request for the next candidate is issued only after
\* the one for the previous candidate has completed or failed.
C14_SequentialConverts ==
    /\ [](\A a \in TwoPhase : C14_State(a))
    /\ [][\A a \in TwoPhase : C14_Step(a)]_vars

\* C14 witness: y2mate's third and 9convert's second convert request are in
\* flight at the same time, while ssyoutube's fetch is outstanding too.
C14_Witness ==
    /\ pc["y2mate"] = "converting" /\ Len(convertLog["y2mate"]) = 3
    /\ pc["9convert"] = "converting" /\ Len(convertLog["9convert"]) = 2
    /\ inFlight["y2mate"] = 1 /\ inFlight["9convert"] = 1 /\ inFlight["ssyoutube"] = 1

\* C15 (as claimed): when getVideoId yields no id, y2mate and loader.to return
\* the empty sequence without issuing a request, while 9convert and ssyoutube
\* are run and every link they return appears in the result.
C15_MissingIdStaysLocal ==
    (callPc \in {"waiting", "done"} /\ isValidUrl(sourceUrl) /\ videoId = <<>>) =>
        /\ \A a \in {"y2mate", "loader.to"} :
              /\ invoked[a] = 1
              /\ requests[a] = 0
              /\ settled[a] = [status |-> "fulfilled", value |-> <<>>]
        /\ \A a \in {"9convert", "ssyoutube"} :
              /\ invoked[a] = 1
              /\ (callPc = "done") =>
                    /\ requests[a] >= 1
                    /\ \A n \in 1..Len(settled[a].value) :
                          \E m \in 1..Len(result.downloads) :
                              Triple(result.downloads[m]) = Triple(settled[a].value[n])

\* C16 (as claimed): every result returned, on every path, has a total equal to
\* the number of links in downloads, and success is true iff total > 0.
C16_SuccessIffTotal ==
    (callPc = "done") =>
        /\ "total" \in DOMAIN result
        /\ result.total = Len(result.downloads)
        /\ result.success = (result.total > 0)

\* C17 (as claimed): in every result returned, services has no name twice, every
\* name in services is the service of some link in downloads, and the service
\* of every link in downloads is in services.
C17_ServicesAreContributors ==
    (callPc = "done") =>
        /\ \A i, j \in 1..Len(result.services) :
              (result.services[i] = result.services[j]) => i = j
        /\ \A i \in 1..Len(result.services) :
              \E n \in 1..Len(result.downloads) :
                  result.downloads[n].service = result.services[i]
        /\ \A n \in 1..Len(result.downloads) :
              \E i \in 1..Len(result.services) :
                  result.services[i] = result.downloads[n].service

\* the position of a service in the invocation order y2mate, 9convert,
\* ssyoutube, loader.to
InvocationIndex(service) ==
    CHOOSE i \in 1..4 : <<"y2mate", "9convert", "ssyoutube", "loader.to">>[i] = service

\* C18 (as claimed): whatever the order in which the adapters completed, the
\* combined list is the adapters' sequences concatenated in invocation order,
\* and in the returned downloads links of equal table score appear in
\* invocation order (and, within an adapter, in the order it returned them).
C18_InvocationOrder ==
    (callPc = "done" /\ isValidUrl(sourceUrl)) =>
        /\ allDownloads = settled["y2mate"].value \o settled["9convert"].value
                            \o settled["ssyoutube"].value \o settled["loader.to"].value
        /\ \A m, n \in 1..Len(result.downloads) :
              (/\ m < n
               /\ TableScore(result.downloads[m].quality) = TableScore(result.downloads[n].quality))
              => /\ InvocationIndex(result.downloads[m].service)
                      <= InvocationIndex(result.downloads[n].service)
                 /\ \E i, j \in 1..Len(allDownloads) :
                       /\ i < j
                       /\ allDownloads[i] = result.downloads[m]
                       /\ allDownloads[j] = result.downloads[n]

\* the patterns, in the listed order, that match the URL
MatchingPatterns(url) == {n \in 1..5 : MatchPattern(url, patterns[n]) # <<>>}

\* C19: getVideoId returns the group captured by the first pattern, in the
\* listed order, that matches the URL, also when a later pattern matches too
\* (even further left in the URL); it returns null iff no pattern matches;
\* https://youtu.be/abc123 yields abc123.
C19_FirstPatternWins ==
    (callPc = "extracted") =>
        /\ (MatchingPatterns(sourceUrl) = {}) <=> (videoId = <<>>)
        /\ (MatchingPatterns(sourceUrl) # {}) =>
              LET first == CHOOSE n \in MatchingPatterns(sourceUrl) :
                              \A m \in MatchingPatterns(sourceUrl) : n <= m
              IN videoId = MatchPattern(sourceUrl, patterns[first])
        /\ (sourceUrl = <<"h","t","t","p","s",":","/","/","y","o","u","t","u",".","b","e","/","a","b","c","1","2","3">>)
              => videoId = <<"a","b","c","1","2","3">>

\* C19 witness: the TikTok pattern matches at the start of the URL and the
\* first (YouTube) pattern further right; the id is the YouTube one.
C19_Witness ==
    /\ callPc = "extracted"
    /\ MatchingPatterns(sourceUrl) = {1, 4}
    /\ MatchPattern(sourceUrl, patterns[4]) = <<"a","b","c","1","2","3">>
    /\ videoId = <<"z","9">>

\* the links every adapter has returned so far, and those of the result
ReturnedLinks ==
    UNION {{settled[a].value[n] : n \in 1..Len(settled[a].value)} : a \in Adapters}
    \cup (IF callPc = "done" THEN {result.downloads[n] : n \in 1..Len(result.downloads)} ELSE {})

\* C20 (as claimed): every link an adapter returns, and so every link of
\* downloads, has type "audio" if its format is mp3 or m4a and "video"
\* otherwise.
C20_TypeFromFormat ==
    \A d \in ReturnedLinks :
        d.type = (IF d.format \in {<<"m","p","3">>, <<"m","4","a">>} THEN "audio" ELSE "video")

\* an absolute http(s) URL: the scheme http:// or https:// in any case,
\* followed by a host that starts with neither a separator nor a blank
AbsoluteHttpUrl(url) ==
    \E scheme \in {<<"h","t","t","p",":","/","/">>, <<"h","t","t","p","s",":","/","/">>} :
        /\ HasAt(toLowerCase(url), 1, scheme)
        /\ Len(url) > Len(scheme)
        /\ url[Len(scheme) + 1] \notin {"/", "?", "#", ".", " "}

\* C21: every link an adapter returns, and so every link of downloads, has a
\* directUrl that passed isValidUrl and is an absolute http(s) URL: none is
\* missing, relative or of another scheme
C21_DirectUrlValid ==
    \A d \in ReturnedLinks :
        /\ d.directUrl # <<>>
        /\ isValidUrl(d.directUrl)
        /\ AbsoluteHttpUrl(d.directUrl)

\* loader.to was served a relative href and y2mate an href with a blank, both
\* dropped, while links of other adapters reached downloads
C21_Witness ==
    /\ callPc = "done"
    /\ pc["loader.to"] = "done" /\ directUrls["loader.to"] = <<>>
    /\ \E n \in 1..Len(convertLog["y2mate"]) : convertLog["y2mate"][n].outcome = "none"
    /\ \E n \in 1..Len(result.downloads) : result.downloads[n].service = "ssyoutube"
    /\ \E n \in 1..Len(result.downloads) : result.downloads[n].service = "9convert"

C22_State(a) ==
    \* as many completed waits as requests, each of REQUEST_DELAY
    /\ Len(delays[a]) = requests[a]
    /\ \A n \in 1..Len(delays[a]) : delays[a][n] = REQUEST_DELAY

C22_Step(a) ==
    \* a request is issued out of a pending wait that began when the adapter
    \* started or when its previous request returned, and the wait completes
    \* with the step
    (requests'[a] > requests[a]) =>
        /\ pc[a] \in {"delay", "convertDelay"}
        /\ inFlight[a] = 0
        /\ requests'[a] = requests[a] + 1
        /\ delays'[a] = Append(delays[a], REQUEST_DELAY)

\* C22: in parseY2Mate and parse9Convert every request, the analyze request
\* and each convert request, is issued only after a wait of REQUEST_DELAY has
\* completed since the adapter started or since its previous request returned;
\* no request is issued without its own preceding delay.
C22_InterRequestDelay ==
    /\ [](\A a \in TwoPhase : C22_State(a))
    /\ [][\A a \in TwoPhase : C22_Step(a)]_vars

\* y2mate has issued its analyze and three convert requests, 9convert its
\* analyze and two convert requests, each after a wait of its own
C22_Witness ==
    /\ requests["y2mate"] = 4 /\ Len(delays["y2mate"]) = 4
    /\ requests["9convert"] = 3 /\ Len(delays["9convert"]) = 3

\* the results call c can return when it runs alone and its adapters return
\* what they returned to it
ResultsAlone(c) ==
    LET results == [n \in 1..Len(serviceNames) |-> calls[c].settled[serviceNames[n]]]
        all == CollectDownloads(results, Len(results))
    IN  {BuildResult(sorted, CollectServices(results, Len(results))) :
            sorted \in sortByQuality(removeDuplicates(all))}

\* C23: of two calls for different URLs interleaved on one instance, each
\* returns a result it could return running alone with the same adapter
\* returns; every link of its downloads was obtained by its own adapters and
\* every service it names contributed to it.
C23_CallsIndependent ==
    \A c \in CallIds :
        (calls[c].pc = "done" /\ isValidUrl(calls[c].videoUrl)) =>
            /\ calls[c].result \in ResultsAlone(c)
            /\ \A n \in 1..Len(calls[c].result.downloads) :
                  calls[c].result.downloads[n].origin = c
            /\ \A n \in 1..Len(calls[c].result.services) :
                  Contributes(calls[c].settled[calls[c].result.services[n]])

\* both calls returned links, the second after the first
C23_Witness ==
    /\ calls[1].pc = "done" /\ calls[2].pc = "done"
    /\ calls[1].videoUrl # calls[2].videoUrl
    /\ Len(calls[1].result.downloads) > 1
    /\ Len(calls[2].result.downloads) > 1
    /\ calls[1].result.services # calls[2].result.services

\* C24: when every timer fires and every request settles, each adapter that
\* was started reaches a terminal state and the call returns; and the call
\* leaves its await only once every adapter promise has settled, there being
\* no other way out of it.
C24_Termination ==
    /\ <>(callPc = "done" /\ \A a \in Adapters : pc[a] \in {"idle", "done", "failed"})
    /\ [](callPc # "start" /\ isValidUrl(sourceUrl) => \A a \in Adapters : pc[a] # "idle")
    /\ [][(callPc = "waiting" /\ callPc' # "waiting") => AllSettled]_vars

\* the call returned after all nine requests were issued and settled
C24_Witness ==
    /\ callPc = "done"
    /\ \A a \in Adapters : pc[a] \in {"done", "failed"} /\ inFlight[a] = 0
    /\ requests["y2mate"] = 4 /\ requests["9convert"] = 3
    /\ requests["ssyoutube"] = 1 /\ requests["loader.to"] = 1

\* every adapter was called exactly once, with the URL the call was given
InvokedOnceWithSourceUrl ==
    \A a \in Adapters :
        /\ invoked[a] = 1
        /\ Len(invocations[a]) = 1
        /\ invocations[a][1].videoUrl = sourceUrl

\* C25 (as claimed): for a URL that passes validation each of the four
\* adapters is invoked exactly once with the unmodified sourceUrl, and no
\* adapter has completed when any of them is started.
C25_FanOutAsClaimed ==
    (callPc # "start" /\ isValidUrl(sourceUrl)) =>
        /\ InvokedOnceWithSourceUrl
        /\ \A a \in Adapters : invocations[a][1].settledBefore = {}

\* C25 (amended): for a URL that passes validation each of the four adapters
\* is invoked exactly once with the unmodified sourceUrl; an adapter that has
\* completed when another is started is one that found no video id and
\* returned before its first await, without a request and without links; every
\* adapter that reaches its first await completes after all four were started.
C25_FanOut ==
    /\ (callPc # "start" /\ isValidUrl(sourceUrl)) =>
          /\ InvokedOnceWithSourceUrl
          /\ \A a \in Adapters : \A b \in invocations[a][1].settledBefore :
                /\ b \in RequiresVideoId
                /\ getVideoId(sourceUrl) = <<>>
                /\ failure[b] = "noVideoId"
                /\ requests[b] = 0
                /\ settled[b] = [status |-> "fulfilled", value |-> <<>>]
          /\ \A a, b \in Adapters :
                requests[b] > 0 => b \notin invocations[a][1].settledBefore
    /\ (callPc = "start" \/ ~isValidUrl(sourceUrl)) =>
          \A a \in Adapters : invoked[a] = 0 /\ invocations[a] = <<>>

\* a URL without a video id: y2mate had returned when 9convert was called, the
\* other adapters ran, and the call returned their links
C25_Witness ==
    /\ callPc = "done"
    /\ isValidUrl(sourceUrl)
    /\ getVideoId(sourceUrl) = <<>>
    /\ invocations["9convert"][1].settledBefore = {"y2mate"}
    /\ invocations["loader.to"][1].settledBefore = {"y2mate"}
    /\ requests["9convert"] = 3 /\ requests["ssyoutube"] = 1
    /\ result.total > 0

\* k = min(cap, number of candidates)
PrefixLength(a) == IF Len(items[a]) < CapOf(a) THEN Len(items[a]) ELSE CapOf(a)

\* C26: the links of parseY2Mate / parse9Convert correspond one-to-one, in
\* candidate order, to the candidates among the first k = min(cap, number of
\* candidates) whose convert call yielded a valid link; each link carries the
\* quality, format and type of its own candidate; there are between 0 and k
\* links and none for a candidate beyond the prefix.
C26_TwoPhaseOutput ==
    \A a \in TwoPhase :
        LET pos == LinkedPositions(a) IN
        /\ Len(directUrls[a]) = Len(pos)
        /\ Len(directUrls[a]) <= PrefixLength(a)
        /\ \A j \in 1..Len(pos) :
              /\ pos[j] <= PrefixLength(a)
              /\ (j > 1 => pos[j - 1] < pos[j])
              /\ directUrls[a][j].quality = items[a][pos[j]].quality
              /\ directUrls[a][j].format = items[a][pos[j]].format
              /\ directUrls[a][j].type = items[a][pos[j]].type
              /\ directUrls[a][j].service = a
              /\ isValidUrl(directUrls[a][j].directUrl)
        /\ (pc[a] = "done" =>
              /\ settled[a] = [status |-> "fulfilled", value |-> directUrls[a]]
              /\ Len(convertLog[a]) = PrefixLength(a))

\* y2mate returned links for the first and third of four candidates, its
\* second conversion having yielded none; 9convert returned one link, for its
\* second candidate
C26_Witness ==
    /\ pc["y2mate"] = "done" /\ Len(items["y2mate"]) = 4
    /\ LinkedPositions("y2mate") = <<1, 3>>
    /\ pc["9convert"] = "done" /\ Len(items["9convert"]) >= 3
    /\ LinkedPositions("9convert") = <<2>>

\* the links of a sequence, and how often a link occurs in it
LinksOf(s) == {s[n] : n \in 1..Len(s)}
Occurrences(s, d) == Cardinality({n \in 1..Len(s) : s[n] = d})

\* C27 (as claimed): downloads is a reordering of a subsequence of the
\* concatenated adapter outputs with every link unchanged, every distinct
\* (directUrl, quality, format) triple of the outputs occurs exactly once in
\* it, and none twice.
C27_DedupeRankPreserves ==
    (callPc = "done" /\ isValidUrl(sourceUrl)) =>
        /\ \A d \in LinksOf(result.downloads) :
              Occurrences(result.downloads, d) <= Occurrences(allDownloads, d)
        /\ \A d \in LinksOf(allDownloads) :
              Cardinality({n \in 1..Len(result.downloads) :
                             Triple(result.downloads[n]) = Triple(d)}) = 1

\* the analyze / fetch requests adapter a has issued
FirstRequests(a) == requests[a] - Len(convertLog[a])

C28_State ==
    /\ \A a \in Adapters :
          /\ FirstRequests(a) \in {0, 1}
          /\ (a \in SinglePhase => convertLog[a] = <<>>)
          \* one convert request per candidate: the n-th is for the n-th candidate
          /\ Len(convertLog[a]) <= Len(items[a])
          /\ \A n \in 1..Len(convertLog[a]) : convertLog[a][n].k = items[a][n].k
    /\ requests["y2mate"] <= 1 + 3
    /\ requests["9convert"] <= 1 + 2
    /\ requests["ssyoutube"] <= 1
    /\ requests["loader.to"] <= 1
    /\ requests["y2mate"] + requests["9convert"] + requests["ssyoutube"]
          + requests["loader.to"] <= 9

C28_Step ==
    \A a \in Adapters :
        \* an adapter that failed or returned issues nothing more
        /\ (pc[a] \in {"done", "failed"} => (pc'[a] = pc[a] /\ requests'[a] = requests[a]))
        \* a convert request that yielded nothing is followed, if at all, by
        \* the request for the next candidate
        /\ (Len(convertLog'[a]) > Len(convertLog[a]) =>
               convertLog'[a][Len(convertLog'[a])].k = items[a][Len(convertLog[a]) + 1].k)

\* C28: within one call each adapter issues its analyze / fetch request at
\* most once and at most one convert request per candidate, a failed request
\* is never issued again, and at most 9 requests are issued in all (y2mate
\* 1+3, 9convert 1+2, ssyoutube 1, loader.to 1).
C28_NoRetry == []C28_State /\ [][C28_Step]_vars

\* nine requests were issued, several of which failed
C28_Witness ==
    /\ requests["y2mate"] = 4 /\ requests["9convert"] = 3
    /\ requests["ssyoutube"] = 1 /\ requests["loader.to"] = 1
    /\ failure["ssyoutube"] = "request"
    /\ \E n \in 1..Len(convertLog["y2mate"]) : convertLog["y2mate"][n].outcome = "none"
    /\ \E n \in 1..Len(convertLog["9convert"]) : convertLog["9convert"][n].outcome = "none"
    /\ callPc = "done"

\* C30 (as claimed): for a source URL on www.youtube.com or youtube.com
\* parseSSYouTube requests the same URL with that host replaced, once, by
\* ssyoutube.com; for youtu.be/<id> it requests ssyoutube.com/watch?v=<id>;
\* scheme, path and query are unchanged.
C30_SSYouTubeRewrite ==
    callPc = "rewritten" =>
        \A s \in RewriteSchemes, p \in RewritePaths :
            /\ (sourceUrl \in {s \o HostWwwYoutube \o p, s \o HostYoutube \o p}
                   => ssUrl = s \o HostSSYoutube \o p)
            /\ ((p # <<>> /\ sourceUrl = s \o <<"y","o","u","t","u",".","b","e">> \o p)
                   => ssUrl = s \o HostSSYoutube \o <<"/","w","a","t","c","h","?","v","=">>
                                \o Tail(p))

\* C29 (as claimed): the older coordinator never rejects; whatever the
\* adapters were served, a savetube JSON body with a quality of any JSON type
\* included, the call returns an object with success, downloads, services and
\* total.
C29_DirectNeverRejects ==
    /\ callPc # "rejected"
    /\ (callPc = "done" =>
           /\ DOMAIN result = {"success", "downloads", "services", "total"}
           /\ result.total = Len(result.downloads)
           /\ result.success = (result.total > 0))

=============================================================================
